---- MODULE Spec2Model ----
(***************************************************************************)
(* OlostepCrawlWebsiteTool.crawl_website (src/src/upsonic/tools.py).       *)
(*                                                                         *)
(* One call of crawl_website is modelled: the POST that initiates the      *)
(* crawl, the polling loop, the pages listing, the ThreadPoolExecutor that *)
(* retrieves the pages' content, and the sort and formatting of the        *)
(* output.  The remote service is the environment: every HTTP response is  *)
(* chosen nondeterministically from a small set when the request returns.  *)
(*                                                                         *)
(* Python strings that are compared or concatenated (URLs, page content,   *)
(* the output) are sequences of code points, so that the sort compares     *)
(* them as Python does.  Opaque strings (retrieve ids, response bodies,    *)
(* exception messages) are TLA+ strings.                                   *)
(***************************************************************************)
EXTENDS Integers, Sequences, FiniteSets, TLC

VARIABLES
    pc,               \* position of the calling thread in crawl_website
    crawl_data,       \* the POST payload: start_url, max_pages
    crawl_id,         \* crawl_response.get("id")
    status,           \* info.get("status") of the last status response
    crawled_pages,    \* pages_data.get("pages", [])
    task,             \* per page: state of its future in the executor
    future,           \* per page: the future's result, once it is done
    results,          \* the list the calling thread appends to
    formatted_output, \* the returned string
    error,            \* the exception that left crawl_website, if any
    last_response,    \* the last response the calling thread received
    response,         \* per page: the retrieval response it received
    n_post,           \* requests.post(.../crawls) calls
    n_status,         \* requests.get(.../crawls/{id}) calls
    n_pages,          \* requests.get(.../crawls/{id}/pages) calls
    n_retrieve,       \* per page: requests.get(.../retrieve) calls
    n_sleep,          \* time.sleep(5) calls
    n_nonterminal,    \* status responses: HTTP success, status not terminal
    slept,            \* time units spent in time.sleep
    adapter,          \* the adapter under construction and its surroundings
    invocation        \* one call of an adapter operation other than the crawl

\* The variables of one call of crawl_website.
crawl_vars ==
    <<pc, crawl_data, crawl_id, status, crawled_pages, task, future,
      results, formatted_output, error, last_response, response,
      n_post, n_status, n_pages, n_retrieve, n_sleep, n_nonterminal, slept>>

vars == <<crawl_vars, adapter, invocation>>

-----------------------------------------------------------------------------
(* Bounds of the model. *)

\* Longest pages listing the service returns.
MaxPages == 2

\* Most non-terminal status responses the service gives before it must
\* answer with a terminal status or an HTTP error.
MaxPolls == 2

-----------------------------------------------------------------------------
(* Values. *)

\* Python's None, where a string or a dict field may be absent.
None == "None"

EmptyStr == <<>>

LF == 10

\* "\n\n"
Separator == <<LF, LF>>

\* "https://example.com"
ExampleCom ==
    <<104, 116, 116, 112, 115, 58, 47, 47,
      101, 120, 97, 109, 112, 108, 101, 46, 99, 111, 109>>

\* "https://example.com/a"
ExampleA == ExampleCom \o <<47, 97>>

\* "https://example.com/b"
ExampleB == ExampleCom \o <<47, 98>>

\* "A", "B"
ContentA == <<65>>
ContentB == <<66>>

\* The calls of crawl_website that are modelled: (start_url, max_pages).
Calls == { [start_url |-> ExampleCom, max_pages |-> 2] }

\* HTTP status codes the service answers with: the one the code accepts,
\* another success code, and a failure.
StatusCodes == {200, 201, 500}

HttpSuccess(code) == code >= 200 /\ code <= 299

\* response.text of a response the code reports.
Texts == {"", "oops"}

\* response.text by status code: the code reads it only when the status
\* code is not 200, so the text of a response it accepts is left out.
ResponseTexts(code) == IF code = 200 THEN {""} ELSE Texts

\* The id field of the job-creation response (None: no such field).
CrawlIds == {None, "", "job-1"}

\* The status field of a status response (None: no such field).
Statuses == {None, "pending", "running", "paused", "completed", "failed"}

\* The error field of a status response (None: no such field).
ErrorDetails == {None, "boom"}

\* Page descriptors of the pages listing.  A descriptor without a url key
\* has url "" by page.get("url", ""); one without a retrieve_id has None.
Descriptors ==
    { [url |-> ExampleA, retrieve_id |-> "r1"],
      [url |-> ExampleB, retrieve_id |-> "r2"],
      [url |-> ExampleA, retrieve_id |-> "r2"],
      [url |-> EmptyStr, retrieve_id |-> "r1"],
      [url |-> ExampleB, retrieve_id |-> None],
      [url |-> ExampleB, retrieve_id |-> ""] }

\* Listings of at most MaxPages descriptors.
Listings == UNION { [1..n -> Descriptors] : n \in 0..MaxPages }

\* What a retrieval request comes back with: an exception raised by
\* requests.get or by .json(), or a response with a status code, a text
\* and a JSON body that has a markdown_content field or not.
RetrieveResponses ==
    { [raised |-> TRUE, status_code |-> 0, text |-> "",
       has_markdown |-> FALSE, markdown_content |-> EmptyStr],
      [raised |-> FALSE, status_code |-> 500, text |-> "oops",
       has_markdown |-> FALSE, markdown_content |-> EmptyStr],
      [raised |-> FALSE, status_code |-> 201, text |-> "",
       has_markdown |-> TRUE, markdown_content |-> ContentA],
      [raised |-> FALSE, status_code |-> 200, text |-> "",
       has_markdown |-> FALSE, markdown_content |-> EmptyStr],
      [raised |-> FALSE, status_code |-> 200, text |-> "",
       has_markdown |-> TRUE, markdown_content |-> EmptyStr],
      [raised |-> FALSE, status_code |-> 200, text |-> "",
       has_markdown |-> TRUE, markdown_content |-> ContentA],
      [raised |-> FALSE, status_code |-> 200, text |-> "",
       has_markdown |-> TRUE, markdown_content |-> ContentB] }

\* ThreadPoolExecutor(max_workers=10)
max_workers == 10

\* time.sleep(5)
SleepInterval == 5

\* No response received (yet).
NoResponse ==
    [stage |-> "none", status_code |-> 0, text |-> "",
     id |-> None, status |-> None, error |-> None]

\* No exception.
NoError == [type |-> "none", message |-> ""]

-----------------------------------------------------------------------------
(* Pure parts of crawl_website. *)

\* Python's str comparison a < b: by code point, a proper prefix is less.
RECURSIVE StrLess(_, _)
StrLess(a, b) ==
    IF b = <<>> THEN FALSE
    ELSE IF a = <<>> THEN TRUE
    ELSE IF Head(a) = Head(b) THEN StrLess(Tail(a), Tail(b))
    ELSE Head(a) < Head(b)

\* Where list.sort puts x among the already sorted s: after every entry
\* whose key is not greater (the sort is stable).
RECURSIVE InsertByUrl(_, _)
InsertByUrl(s, x) ==
    IF s = <<>> THEN <<x>>
    ELSE IF StrLess(x.url, s[Len(s)].url)
         THEN Append(InsertByUrl(SubSeq(s, 1, Len(s) - 1), x), s[Len(s)])
         ELSE Append(s, x)

\* A sort that is left out: the results stay in completion order.
SortByUrl_Unsorted(s) == s

\* results.sort(key=lambda x: x["url"])
RECURSIVE SortByUrl(_)
SortByUrl(s) ==
    IF s = <<>> THEN <<>>
    ELSE InsertByUrl(SortByUrl(SubSeq(s, 1, Len(s) - 1)), s[Len(s)])

\* An entry formatted without the line feed between url and content.
FormatEntry_NoLineFeed(result) == result.url \o result.content

\* f"{result['url']}\n{result['content']}"
FormatEntry(result) == result.url \o <<LF>> \o result.content

\* A formatting loop that never adds the separator.
RECURSIVE FormatFrom_NoSeparator(_, _, _)
FormatFrom_NoSeparator(rs, k, out) ==
    IF k > Len(rs) THEN out
    ELSE FormatFrom_NoSeparator(rs, k + 1, out \o FormatEntry(rs[k]))

\* The formatting loop, from entry k on, with the output so far.
RECURSIVE FormatFrom(_, _, _)
FormatFrom(rs, k, out) ==
    IF k > Len(rs) THEN out
    ELSE FormatFrom(rs, k + 1,
                    (IF out # EmptyStr THEN out \o Separator ELSE out)
                        \o FormatEntry(rs[k]))

FormatOutput(rs) == FormatFrom(rs, 1, EmptyStr)

\* A guard that tests the url only.
IssuesRequest_UrlOnly(page) == page.url # EmptyStr

\* A guard that tests the retrieve_id only.
IssuesRequest_IdOnly(page) == page.retrieve_id \notin {None, ""}

\* retrieve_page_content: the guard "if not url or not retrieve_id" is
\* false, so the retrieval request is issued.
IssuesRequest(page) ==
    ~(page.url = EmptyStr \/ page.retrieve_id \in {None, ""})

\* content_data.get("markdown_content", "")
MarkdownContent(resp) ==
    IF resp.has_markdown THEN resp.markdown_content ELSE EmptyStr

\* A retrieve_page_content that returns pages with empty content too.
PageResult_NoContentCheck(page, resp) ==
    IF resp.raised THEN <<>>
    ELSE IF resp.status_code # 200 THEN <<>>
    ELSE << [url |-> page.url, content |-> MarkdownContent(resp)] >>

\* A retrieve_page_content that does not look at the status code.
PageResult_NoStatusCheck(page, resp) ==
    IF resp.raised THEN <<>>
    ELSE IF page.url # EmptyStr /\ MarkdownContent(resp) # EmptyStr
         THEN << [url |-> page.url, content |-> MarkdownContent(resp)] >>
         ELSE <<>>

\* retrieve_page_content: its return value once the retrieval request
\* came back with resp.  <<>> is None, <<r>> is the dict r.
PageResult(page, resp) ==
    IF resp.raised THEN <<>>
    ELSE IF resp.status_code # 200 THEN <<>>
    ELSE IF page.url # EmptyStr /\ MarkdownContent(resp) # EmptyStr
         THEN << [url |-> page.url, content |-> MarkdownContent(resp)] >>
         ELSE <<>>

\* The messages of the exceptions crawl_website raises.
InitiateError(code, text) ==
    [type |-> "Exception",
     message |-> "Error initiating crawl: " \o ToString(code) \o " - " \o text]

NoCrawlIdError ==
    [type |-> "Exception", message |-> "Failed to get crawl ID from response"]

StatusError(code, text) ==
    [type |-> "Exception",
     message |-> "Error checking crawl status: " \o ToString(code)
                     \o " - " \o text]

\* A failure message that leaves the provider's error detail out.
CrawlFailedError_NoDetail(detail) ==
    [type |-> "Exception", message |-> "Crawl failed: Unknown error"]

CrawlFailedError(detail) ==
    [type |-> "Exception",
     message |-> "Crawl failed: "
                     \o (IF detail = None THEN "Unknown error" ELSE detail)]

PagesError(code, text) ==
    [type |-> "Exception",
     message |-> "Error getting crawled pages: " \o ToString(code)
                     \o " - " \o text]

-----------------------------------------------------------------------------
(* The adapters' constructors and prerequisite checks.                     *)
(*                                                                         *)
(* adapter is one adapter object together with what its construction       *)
(* reads: the explicit api_key argument, the provider's variable in        *)
(* os.environ, the .env files of the working directory and its ancestors,  *)
(* and the packages that are not installed.                                *)

\* Deepest working directory: the number of its ancestors.
MaxDepth == 4

\* for _ in range(4): the directories _load_api_key_from_env_file visits.
EnvFileLevels == 4

\* SerperDev; the Olostep tools (one constructor text, three classes); the
\* Firecrawl tools (the same, with the firecrawl-py check); YoutubeSearch;
\* and YFinanceTool, which needs no credential.
DotenvClasses ==
    {"SerperDev", "OlostepCrawlWebsiteTool", "FirecrawlSearchTool"}

CredentialClasses == DotenvClasses \cup {"YoutubeSearch"}

AdapterClasses == CredentialClasses \cup {"YFinanceTool"}

\* The packages an adapter imports that may be absent.  tools.py imports
\* requests at module level, so no class exists without it.
Packages(cls) ==
    CASE cls = "SerperDev" -> {"python-dotenv"}
      [] cls = "OlostepCrawlWebsiteTool" -> {"python-dotenv"}
      [] cls = "FirecrawlSearchTool" -> {"python-dotenv", "firecrawl-py"}
      [] cls = "YoutubeSearch" -> {}
      [] cls = "YFinanceTool" -> {"yfinance"}

\* The packages analyze_dependencies lists, requests left out.
Dependencies(cls) ==
    CASE cls = "OlostepCrawlWebsiteTool" -> {"python-dotenv"}
      [] cls = "FirecrawlSearchTool" -> {"python-dotenv", "firecrawl-py"}
      [] cls = "YFinanceTool" -> {"yfinance"}
      [] OTHER -> {}

\* The api_key argument (None: not given).
ApiKeyArguments == {None, "", "arg-key"}

\* The provider's variable in os.environ (None: not in os.environ).
EnvironValues == {None, "", "env-key"}

\* A directory's .env file: none, one without the key, one with the key
\* and an empty value, one with the key and a value.
EnvFileKinds == {"absent", "nokey", "empty", "key"}

\* The .env files of the working directory (first) and of its ancestors up
\* to the root directory (last); a file without the key is tried in the
\* working directory only.
EnvFileTrees ==
    { files \in UNION { [1..(d + 1) -> EnvFileKinds] : d \in 0..MaxDepth } :
        \A i \in 2..Len(files) : files[i] # "nokey" }

\* The file of directory i holds the key.
HoldsKey(files, i) == files[i] \in {"empty", "key"}

\* The value the file of directory i gives the key.
FileValue(files, i) ==
    IF files[i] = "empty" THEN "" ELSE "file-key-" \o ToString(i - 1)

NoException == [type |-> "none", message |-> ""]

\* The constructed OlostepCrawlWebsiteTool whose crawl_website is called.
CrawlTool ==
    [cls |-> "OlostepCrawlWebsiteTool", api_key_arg |-> "arg-key",
     environ |-> None, env_files |-> <<"absent">>, missing |-> {},
     pc |-> "constructed", api_key |-> "arg-key", consulted |-> {},
     error |-> NoException, control |-> "not called",
     control_error |-> NoException, requests |-> 0]

\* No operation is being invoked.
NoInvocation == [op |-> "none"]

-----------------------------------------------------------------------------
(* The state after crawl_website is entered, before its first request. *)

\* crawl_website has been entered with the arguments data.
CrawlEntered(data) ==
    /\ pc = "initiate"
    /\ crawl_data = data
    /\ crawl_id = None
    /\ status = None
    /\ crawled_pages = <<>>
    /\ task = <<>>
    /\ future = <<>>
    /\ results = <<>>
    /\ formatted_output = EmptyStr
    /\ error = NoError
    /\ last_response = NoResponse
    /\ response = <<>>
    /\ n_post = 0
    /\ n_status = 0
    /\ n_pages = 0
    /\ n_retrieve = <<>>
    /\ n_sleep = 0
    /\ n_nonterminal = 0
    /\ slept = 0

Init ==
    /\ \E data \in Calls : CrawlEntered(data)
    /\ adapter = CrawlTool
    /\ invocation = NoInvocation

-----------------------------------------------------------------------------
(* Decisions of the calling thread. *)

\* A step 1 that does not test the crawl id.
InitiateOutcome_NoIdCheck(code, id) ==
    IF code # 200 THEN "raise_http" ELSE "poll"

\* Step 1, after the POST returned: raise on a status other than 200,
\* raise on a falsy crawl id, otherwise go on to poll.
InitiateOutcome(code, id) ==
    IF code # 200 THEN "raise_http"
    ELSE IF id \in {None, ""} THEN "raise_no_id"
    ELSE "poll"

\* A step 2 that leaves the loop on running as well.
PollOutcome_BreaksEarly(code, st) ==
    IF code # 200 THEN "raise_http"
    ELSE IF st \in {"completed", "running"} THEN "break"
    ELSE IF st = "failed" THEN "raise_failed"
    ELSE "sleep"

\* A step 2 that leaves the loop on failed as it does on completed.
PollOutcome_BreaksOnFailed(code, st) ==
    IF code # 200 THEN "raise_http"
    ELSE IF st \in {"completed", "failed"} THEN "break"
    ELSE "sleep"

\* Step 2, after a status query returned: raise on a status other than
\* 200, leave the loop on completed, raise on failed, otherwise sleep.
PollOutcome(code, st) ==
    IF code # 200 THEN "raise_http"
    ELSE IF st = "completed" THEN "break"
    ELSE IF st = "failed" THEN "raise_failed"
    ELSE "sleep"

\* A step 3 that does not test the status code.
PagesOutcome_Unchecked(code) == "fetch"

\* Step 3, after the pages listing returned.
PagesOutcome(code) ==
    IF code # 200 THEN "raise_http" ELSE "fetch"

\* Futures a worker thread is running.
Running == { i \in DOMAIN task : task[i] = "running" }

\* An executor that starts a thread for every task submitted.
NextQueued_Unbounded(i) ==
    /\ task[i] = "queued"
    /\ \A j \in 1..(i - 1) : task[j] # "queued"

\* The executor's work queue is first in, first out: page i is taken when
\* every page submitted before it has been taken and a worker is free.
NextQueued(i) ==
    /\ task[i] = "queued"
    /\ \A j \in 1..(i - 1) : task[j] # "queued"
    /\ Cardinality(Running) < max_workers

\* A with block that is left as soon as one future has been yielded.
AllYielded_FirstYielded == \E i \in DOMAIN task : task[i] = "yielded"

\* The with block is left when as_completed has yielded every future.
AllYielded == \A i \in DOMAIN task : task[i] = "yielded"

-----------------------------------------------------------------------------
(* Actions. *)

\* Step 1: initiate the crawl.
InitiateCrawl ==
    /\ pc = "initiate"
    /\ \E code \in StatusCodes, id \in CrawlIds :
       \E text \in ResponseTexts(code) :
        /\ n_post' = n_post + 1
        /\ last_response' =
               [stage |-> "initiate", status_code |-> code, text |-> text,
                id |-> id, status |-> None, error |-> None]
        /\ CASE InitiateOutcome(code, id) = "raise_http" ->
                   /\ error' = InitiateError(code, text)
                   /\ pc' = "raised"
                   /\ UNCHANGED crawl_id
             [] InitiateOutcome(code, id) = "raise_no_id" ->
                   /\ error' = NoCrawlIdError
                   /\ pc' = "raised"
                   /\ crawl_id' = id
             [] OTHER ->
                   /\ crawl_id' = id
                   /\ pc' = "poll"
                   /\ UNCHANGED error
    /\ UNCHANGED <<crawl_data, status, crawled_pages, task, future, results,
                   formatted_output, response, n_status, n_pages,
                   n_retrieve, n_sleep, n_nonterminal>>
    /\ UNCHANGED <<adapter, invocation, slept>>

\* Step 2: one status query of the while True loop.
CheckStatus ==
    /\ pc = "poll"
    /\ \E code \in StatusCodes, st \in Statuses,
          detail \in ErrorDetails :
       \E text \in ResponseTexts(code) :
        /\ PollOutcome(code, st) = "sleep" => n_nonterminal < MaxPolls
        /\ n_status' = n_status + 1
        /\ last_response' =
               [stage |-> "status", status_code |-> code, text |-> text,
                id |-> None, status |-> st, error |-> detail]
        /\ n_nonterminal' =
               IF HttpSuccess(code) /\ st \notin {"completed", "failed"}
               THEN n_nonterminal + 1 ELSE n_nonterminal
        /\ CASE PollOutcome(code, st) = "raise_http" ->
                   /\ error' = StatusError(code, text)
                   /\ pc' = "raised"
                   /\ UNCHANGED status
             [] PollOutcome(code, st) = "break" ->
                   /\ status' = st
                   /\ pc' = "pages"
                   /\ UNCHANGED error
             [] PollOutcome(code, st) = "raise_failed" ->
                   /\ status' = st
                   /\ error' = CrawlFailedError(detail)
                   /\ pc' = "raised"
             [] OTHER ->
                   /\ status' = st
                   /\ pc' = "sleep"
                   /\ UNCHANGED error
    /\ UNCHANGED <<crawl_data, crawl_id, crawled_pages, task, future,
                   results, formatted_output, response, n_post, n_pages,
                   n_retrieve, n_sleep>>
    /\ UNCHANGED <<adapter, invocation, slept>>

\* Sleep, were the wait to grow with every round.
Sleep_BacksOff ==
    /\ pc = "sleep"
    /\ n_sleep' = n_sleep + 1
    /\ pc' = "poll"
    /\ UNCHANGED <<crawl_data, crawl_id, status, crawled_pages, task, future,
                   results, formatted_output, error, last_response, response,
                   n_post, n_status, n_pages, n_retrieve, n_nonterminal>>
    /\ slept' = slept + SleepInterval * (n_sleep + 1)
    /\ UNCHANGED <<adapter, invocation>>

\* Sleep, were the wait to be followed by a new job-creation request.
Sleep_Resubmits ==
    /\ pc = "sleep"
    /\ n_sleep' = n_sleep + 1
    /\ pc' = IF n_post < 2 THEN "initiate" ELSE "poll"
    /\ UNCHANGED <<crawl_data, crawl_id, status, crawled_pages, task, future,
                   results, formatted_output, error, last_response, response,
                   n_post, n_status, n_pages, n_retrieve, n_nonterminal>>
    /\ slept' = slept + SleepInterval
    /\ UNCHANGED <<adapter, invocation>>

\* Sleep, were the loop to give up after its first wait.
Sleep_GivesUp ==
    /\ pc = "sleep"
    /\ n_sleep' = n_sleep + 1
    /\ pc' = IF n_sleep >= 1 THEN "raised" ELSE "poll"
    /\ error' = IF n_sleep >= 1 THEN "Crawl timed out" ELSE error
    /\ UNCHANGED <<crawl_data, crawl_id, status, crawled_pages, task, future,
                   results, formatted_output, last_response, response,
                   n_post, n_status, n_pages, n_retrieve, n_nonterminal>>
    /\ slept' = slept + SleepInterval
    /\ UNCHANGED <<adapter, invocation>>

\* A loop that waits without ever querying again.
Sleep_NeverWakes ==
    /\ pc = "sleep"
    /\ UNCHANGED <<crawl_vars, adapter, invocation>>

\* Step 2: time.sleep(5) before the next status query.
Sleep ==
    /\ pc = "sleep"
    /\ n_sleep' = n_sleep + 1
    /\ pc' = "poll"
    /\ UNCHANGED <<crawl_data, crawl_id, status, crawled_pages, task, future,
                   results, formatted_output, error, last_response, response,
                   n_post, n_status, n_pages, n_retrieve, n_nonterminal>>
    /\ slept' = slept + SleepInterval
    /\ UNCHANGED <<adapter, invocation>>

\* Step 3: get the list of crawled pages, then submit one task per page
\* to the executor.
GetPages ==
    /\ pc = "pages"
    /\ \E code \in StatusCodes, pages \in Listings :
       \E text \in ResponseTexts(code) :
        /\ n_pages' = n_pages + 1
        /\ last_response' =
               [stage |-> "pages", status_code |-> code, text |-> text,
                id |-> None, status |-> None, error |-> None]
        /\ IF PagesOutcome(code) = "raise_http"
           THEN /\ error' = PagesError(code, text)
                /\ pc' = "raised"
                /\ UNCHANGED <<crawled_pages, task, future, response,
                               n_retrieve>>
           ELSE /\ crawled_pages' = pages
                /\ task' = [i \in DOMAIN pages |-> "queued"]
                /\ future' = [i \in DOMAIN pages |-> <<>>]
                /\ response' = [i \in DOMAIN pages |-> <<>>]
                /\ n_retrieve' = [i \in DOMAIN pages |-> 0]
                /\ pc' = "fetch"
                /\ UNCHANGED error
    /\ UNCHANGED <<crawl_data, crawl_id, status, results, formatted_output,
                   n_post, n_status, n_sleep, n_nonterminal>>
    /\ UNCHANGED <<adapter, invocation, slept>>

\* A worker takes page i from the queue and runs retrieve_page_content up
\* to its retrieval request, or to "return None" when it issues none.
RetrieveStart(i) ==
    /\ pc = "fetch"
    /\ NextQueued(i)
    /\ IF IssuesRequest(crawled_pages[i])
       THEN /\ n_retrieve' = [n_retrieve EXCEPT ![i] = @ + 1]
            /\ task' = [task EXCEPT ![i] = "running"]
            /\ UNCHANGED future
       ELSE /\ task' = [task EXCEPT ![i] = "done"]
            /\ future' = [future EXCEPT ![i] = <<>>]
            /\ UNCHANGED n_retrieve
    /\ UNCHANGED <<pc, crawl_data, crawl_id, status, crawled_pages, results,
                   formatted_output, error, last_response, response, n_post,
                   n_status, n_pages, n_sleep, n_nonterminal>>
    /\ UNCHANGED <<adapter, invocation, slept>>

\* A retrieval whose exception cancels the futures that have finished.
RetrieveFinishWith_Cancels(i, R) ==
    /\ pc = "fetch"
    /\ task[i] = "running"
    /\ \E resp \in R :
        /\ response' = [response EXCEPT ![i] = <<resp>>]
        /\ future' = IF resp.raised
                     THEN [j \in DOMAIN future |-> <<>>]
                     ELSE [future EXCEPT
                             ![i] = PageResult(crawled_pages[i], resp)]
    /\ task' = [task EXCEPT ![i] = "done"]
    /\ UNCHANGED <<pc, crawl_data, crawl_id, status, crawled_pages, results,
                   formatted_output, error, last_response, n_post, n_status,
                   n_pages, n_retrieve, n_sleep, n_nonterminal>>
    /\ UNCHANGED <<adapter, invocation, slept>>

\* The retrieval request of page i comes back with one of the responses R
\* and retrieve_page_content returns.
RetrieveFinishWith(i, R) ==
    /\ pc = "fetch"
    /\ task[i] = "running"
    /\ \E resp \in R :
        /\ response' = [response EXCEPT ![i] = <<resp>>]
        /\ future' = [future EXCEPT ![i] = PageResult(crawled_pages[i], resp)]
    /\ task' = [task EXCEPT ![i] = "done"]
    /\ UNCHANGED <<pc, crawl_data, crawl_id, status, crawled_pages, results,
                   formatted_output, error, last_response, n_post, n_status,
                   n_pages, n_retrieve, n_sleep, n_nonterminal>>
    /\ UNCHANGED <<adapter, invocation, slept>>

RetrieveFinish(i) == RetrieveFinishWith(i, RetrieveResponses)

\* An as_completed loop that submits a page again when its retrieval gave
\* no result.
AsCompleted_Resubmits(i) ==
    /\ pc = "fetch"
    /\ task[i] = "done"
    /\ task' = [task EXCEPT ![i] =
                   IF future[i] = <<>> /\ n_retrieve[i] = 1
                   THEN "queued" ELSE "yielded"]
    /\ results' = IF future[i] # <<>> THEN Append(results, future[i][1])
                  ELSE results
    /\ UNCHANGED <<pc, crawl_data, crawl_id, status, crawled_pages, future,
                   formatted_output, error, last_response, response, n_post,
                   n_status, n_pages, n_retrieve, n_sleep, n_nonterminal>>
    /\ UNCHANGED <<adapter, invocation, slept>>

\* as_completed yields the finished future of page i to the calling
\* thread, which appends its result unless it is None.
AsCompleted(i) ==
    /\ pc = "fetch"
    /\ task[i] = "done"
    /\ task' = [task EXCEPT ![i] = "yielded"]
    /\ results' = IF future[i] # <<>> THEN Append(results, future[i][1])
                  ELSE results
    /\ UNCHANGED <<pc, crawl_data, crawl_id, status, crawled_pages, future,
                   formatted_output, error, last_response, response, n_post,
                   n_status, n_pages, n_retrieve, n_sleep, n_nonterminal>>
    /\ UNCHANGED <<adapter, invocation, slept>>

\* The with block is left; the results are sorted and formatted, and the
\* string is returned.
SortAndFormat ==
    /\ pc = "fetch"
    /\ AllYielded
    /\ results' = SortByUrl(results)
    /\ formatted_output' = FormatOutput(SortByUrl(results))
    /\ pc' = "done"
    /\ UNCHANGED <<crawl_data, crawl_id, status, crawled_pages, task, future,
                   error, last_response, response, n_post, n_status, n_pages,
                   n_retrieve, n_sleep, n_nonterminal>>
    /\ UNCHANGED <<adapter, invocation, slept>>

Next ==
    \/ InitiateCrawl
    \/ CheckStatus
    \/ Sleep
    \/ GetPages
    \/ \E i \in DOMAIN task : RetrieveStart(i)
    \/ \E i \in DOMAIN task : RetrieveFinish(i)
    \/ \E i \in DOMAIN task : AsCompleted(i)
    \/ SortAndFormat

Spec == Init /\ [][Next]_vars

\* Every HTTP call returns or raises, time.sleep returns, the executor
\* runs a queued task when a worker is free, and the calling thread goes
\* on: the call does not stop while one of its steps is possible.
Fairness == WF_vars(Next)

\* crawl_website against a service that answers every request and, after
\* at most MaxPolls answers that keep the loop going, a status query with
\* completed, failed or a status code other than 200.
SpecLive == Spec /\ Fairness

-----------------------------------------------------------------------------
(* Construction of an adapter and its prerequisite check.                  *)

\* The messages of the exceptions, without the class and variable names.
NotInEnvFile ==
    "environment variable is not set and could not be found in .env file"

NoDotenv ==
    "environment variable is not set and python-dotenv is not installed"

NotInstalled == "is not installed"

MissingDependencies == "Missing dependencies"

KeyNotFound == "Serper API key not found"

MissingArgument == "__control__() missing 1 required positional argument"

\* _load_api_key_from_env_file of the classes that use python-dotenv, from
\* directory i on with n directories left to visit: load_dotenv sets the
\* variable from the file unless it is set already, and the first existing
\* file after which the variable is set ends the walk.
RECURSIVE WalkEnvFiles(_, _, _, _)
WalkEnvFiles(files, i, n, environ) ==
    IF n = 0 THEN [api_key |-> None, environ |-> environ]
    ELSE LET loaded == IF environ = None /\ HoldsKey(files, i)
                       THEN FileValue(files, i) ELSE environ
         IN  IF files[i] # "absent" /\ loaded # None
             THEN [api_key |-> loaded, environ |-> loaded]
             ELSE IF i = Len(files)
             THEN [api_key |-> None, environ |-> loaded]
             ELSE WalkEnvFiles(files, i + 1, n - 1, loaded)

\* YoutubeSearch._load_api_key_from_env_file: the .env file of the working
\* directory only, read line by line; os.environ is not touched.
LoadCwdEnvFile(files, environ) ==
    [raised |-> FALSE,
     api_key |-> IF HoldsKey(files, 1) THEN FileValue(files, 1) ELSE None,
     environ |-> environ]

\* A loader that walks up as many directories as there are.
LoadApiKeyFromEnvFile_WholePath(cls, files, environ, missing) ==
    IF cls = "YoutubeSearch" THEN LoadCwdEnvFile(files, environ)
    ELSE IF "python-dotenv" \in missing
    THEN [raised |-> TRUE, api_key |-> None, environ |-> environ]
    ELSE LET w == WalkEnvFiles(files, 1, Len(files), environ)
         IN  [raised |-> FALSE, api_key |-> w.api_key, environ |-> w.environ]

\* _load_api_key_from_env_file: its ImportError, or the key it returns and
\* os.environ as it leaves it.
LoadApiKeyFromEnvFile(cls, files, environ, missing) ==
    IF cls = "YoutubeSearch" THEN LoadCwdEnvFile(files, environ)
    ELSE IF "python-dotenv" \in missing
    THEN [raised |-> TRUE, api_key |-> None, environ |-> environ]
    ELSE LET w == WalkEnvFiles(files, 1, EnvFileLevels, environ)
         IN  [raised |-> FALSE, api_key |-> w.api_key, environ |-> w.environ]

\* The package a constructor imports after the key is resolved.
ImportedLast(cls) ==
    CASE cls = "FirecrawlSearchTool" -> {"firecrawl-py"}
      [] OTHER -> {}

Raise(ad, type, message) ==
    [ad EXCEPT !.pc = "raised", !.api_key = None,
               !.error = [type |-> type, message |-> message]]

\* An __init__ that prefers the environment variable to the argument.
ResolveApiKey_EnvironFirst(ad) ==
    IF ad.environ # None
    THEN [ad EXCEPT !.api_key = ad.environ, !.consulted = {"environ"}]
    ELSE IF ad.api_key_arg # None
    THEN [ad EXCEPT !.api_key = ad.api_key_arg, !.consulted = {"environ"}]
    ELSE Raise([ad EXCEPT !.consulted = {"environ"}],
               "EnvironmentError", NotInEnvFile)

\* An __init__ that falls back on a placeholder key.
ResolveApiKey_Placeholder(ad) ==
    IF ad.api_key_arg # None
    THEN [ad EXCEPT !.api_key = ad.api_key_arg]
    ELSE IF ad.environ # None
    THEN [ad EXCEPT !.api_key = ad.environ, !.consulted = {"environ"}]
    ELSE [ad EXCEPT !.api_key = "placeholder",
                    !.consulted = {"environ", "env_file"}]

\* The credential part of __init__: self.api_key from the argument, else
\* from os.environ, else from the .env file; the adapter with its key, or
\* raised.
ResolveApiKey(ad) ==
    IF ad.api_key_arg # None
    THEN [ad EXCEPT !.api_key = ad.api_key_arg]
    ELSE IF ad.environ # None
    THEN [ad EXCEPT !.api_key = ad.environ, !.consulted = {"environ"}]
    ELSE LET l == LoadApiKeyFromEnvFile(ad.cls, ad.env_files, ad.environ,
                                        ad.missing)
             read == [ad EXCEPT !.environ = l.environ,
                                !.consulted = {"environ", "env_file"}]
         IN  IF ad.cls = "YoutubeSearch"
             THEN IF l.api_key # None
                  THEN [read EXCEPT !.api_key = l.api_key]
                  ELSE Raise(read, "ValueError", KeyNotFound)
             ELSE IF l.raised
                  THEN Raise(read, "EnvironmentError", NoDotenv)
                  ELSE IF l.api_key \notin {None, ""}
                  THEN [read EXCEPT !.api_key = l.api_key]
                  ELSE Raise(read, "EnvironmentError", NotInEnvFile)

\* A __control__ that looks at the credential before the dependencies.
ControlOutcome_CredentialFirst(ad, via) ==
    IF ad.cls \in DotenvClasses /\ ad.environ = None
    THEN [result |-> "raised",
          error |-> [type |-> "EnvironmentError", message |-> NoDotenv],
          environ |-> ad.environ]
    ELSE IF Dependencies(ad.cls) \cap ad.missing # {}
    THEN [result |-> "raised",
          error |-> [type |-> "ImportError",
                     message |-> MissingDependencies],
          environ |-> ad.environ]
    ELSE [result |-> "True", error |-> NoException, environ |-> ad.environ]

\* __control__, called on the instance (via = "instance") or on the class
\* with the instance as argument (via = "class"): True, or the exception
\* it raises, and os.environ as it leaves it.  SerperDev.__control__ is a
\* staticmethod with a parameter, so the call on the instance passes it no
\* argument.
ControlOutcome(ad, via) ==
    IF ad.cls = "SerperDev" /\ via = "instance"
    THEN [result |-> "raised",
          error |-> [type |-> "TypeError", message |-> MissingArgument],
          environ |-> ad.environ]
    ELSE IF Dependencies(ad.cls) \cap ad.missing # {}
    THEN [result |-> "raised",
          error |-> [type |-> "ImportError",
                     message |-> MissingDependencies],
          environ |-> ad.environ]
    ELSE IF ad.cls \in DotenvClasses /\ ad.environ = None
    THEN LET l == LoadApiKeyFromEnvFile(ad.cls, ad.env_files, ad.environ,
                                        ad.missing)
         IN  IF l.raised
             THEN [result |-> "raised",
                   error |-> [type |-> "EnvironmentError",
                              message |-> NoDotenv],
                   environ |-> l.environ]
             ELSE IF l.api_key = None
             THEN [result |-> "raised",
                   error |-> [type |-> "EnvironmentError",
                              message |-> NotInEnvFile],
                   environ |-> l.environ]
             ELSE [result |-> "True", error |-> NoException,
                   environ |-> l.environ]
    ELSE [result |-> "True", error |-> NoException, environ |-> ad.environ]

\* The adapters about to be constructed, with what their constructors can
\* read.  YFinanceTool takes no key.
NewAdapters ==
    { [cls |-> cls, api_key_arg |-> arg, environ |-> env,
       env_files |-> files, missing |-> missing, pc |-> "new",
       api_key |-> None, consulted |-> {}, error |-> NoException,
       control |-> "not called", control_error |-> NoException,
       requests |-> 0] :
      cls \in CredentialClasses, arg \in ApiKeyArguments,
      env \in EnvironValues, files \in EnvFileTrees,
      missing \in SUBSET {"python-dotenv", "firecrawl-py"} }
    \cup
    { [cls |-> "YFinanceTool", api_key_arg |-> None, environ |-> None,
       env_files |-> <<"absent">>, missing |-> missing, pc |-> "new",
       api_key |-> None, consulted |-> {}, error |-> NoException,
       control |-> "not called", control_error |-> NoException,
       requests |-> 0] :
      missing \in SUBSET {"yfinance"} }

InitAdapters ==
    /\ CrawlEntered([start_url |-> ExampleCom, max_pages |-> 50])
    /\ adapter \in { ad \in NewAdapters : ad.missing \subseteq Packages(ad.cls) }
    /\ invocation = NoInvocation

\* __init__.  YoutubeSearch and YFinanceTool call __control__ first (it
\* does not count as the caller's prerequisite check); the others resolve
\* the key and then import their last package.
Construct ==
    /\ adapter.pc = "new"
    /\ LET checked == ControlOutcome(adapter, "instance")
           keyed == ResolveApiKey(adapter)
       IN  adapter' =
               IF adapter.cls = "YFinanceTool"
               THEN IF checked.result = "raised"
                    THEN Raise(adapter, checked.error.type,
                               checked.error.message)
                    ELSE [adapter EXCEPT !.pc = "constructed"]
               ELSE IF keyed.pc = "raised" THEN keyed
               ELSE IF ImportedLast(adapter.cls) \cap adapter.missing # {}
               THEN Raise(keyed, "ImportError", NotInstalled)
               ELSE [keyed EXCEPT !.pc = "constructed"]
    /\ UNCHANGED <<crawl_vars, invocation>>

\* The caller runs the prerequisite check of the instance.
Control ==
    /\ adapter.pc = "constructed"
    /\ adapter.control = "not called"
    /\ \E via \in {"instance", "class"} :
          LET c == ControlOutcome(adapter, via)
          IN  adapter' = [adapter EXCEPT !.control = c.result,
                                         !.control_error = c.error,
                                         !.environ = c.environ]
    /\ UNCHANGED <<crawl_vars, invocation>>

\* An operation of the instance is called and issues an outbound request.
Operate ==
    /\ adapter.pc = "constructed"
    /\ adapter.requests = 0
    /\ adapter' = [adapter EXCEPT !.requests = 1]
    /\ UNCHANGED <<crawl_vars, invocation>>

NextAdapters == Construct \/ Control \/ Operate

SpecAdapters == InitAdapters /\ [][NextAdapters]_vars

-----------------------------------------------------------------------------
(* Operations other than crawl_website.                                    *)
(*                                                                         *)
(* invocation is one call of an operation: its position, the outbound      *)
(* calls it has issued (n_calls), and what it returns.  For search_tickers *)
(* found is the number of ticker symbols yf.Tickers(query) holds and limit *)
(* the limit argument; fetched and n_result count the loop's rounds and    *)
(* the entries appended.  For YoutubeSearch.search found is the number of  *)
(* videos in the response and n_result the length of the returned list.    *)
(* For SerperDev.search search_type and n_results are the instance's       *)
(* attributes and result the sections of the returned dictionary.          *)
(* response is the last response received and error the exception that     *)
(* left the operation.                                                     *)

\* Most ticker symbols in a query, and largest limit argument.
MaxTickers == 3
MaxLimit == 3

\* Most videos in a response of the videos endpoint.
MaxVideos == 2

\* Largest n_results of a SerperDev instance.
MaxResults == 2

\* The n_results of a SerperDev instance: any integer, none is rejected.
NResults == (-1)..MaxResults

Min(a, b) == IF a <= b THEN a ELSE b

Operations ==
    {"search", "get_ticker_info", "search_tickers", "read_paper",
     "youtube_search", "serper_search"}

\* The search_type of a SerperDev instance: the two allowed types, one of
\* them in another letter case, and a type that is not allowed.
SearchTypes == {"search", "news", "News", "images"}

\* search_type.lower()
Lower(search_type) ==
    CASE search_type = "News" -> "news"
      [] OTHER -> search_type

\* The sections of a Serper response that the processors know.
SearchSections ==
    {"knowledgeGraph", "organic", "peopleAlsoAsk", "relatedSearches"}

NewsSections == {"news"}

\* The keys a list processor reads with result[...]: an item without one
\* of them raises KeyError and is skipped.
RequiredKeys(section) ==
    CASE section = "organic" -> {"title", "link"}
      [] section = "peopleAlsoAsk" -> {"question"}
      [] section = "relatedSearches" -> {"query"}
      [] section = "news" -> {"title", "link"}
      [] OTHER -> {}

\* The keys of a processed item: those read with result[...] and those
\* read with result.get(...), which get a default.
ProcessedKeys(section) ==
    CASE section = "organic" -> {"title", "link", "snippet", "position"}
      [] section = "peopleAlsoAsk" -> {"question", "snippet", "title", "link"}
      [] section = "relatedSearches" -> {"query"}
      [] section = "news" ->
             {"title", "link", "snippet", "date", "source", "imageUrl"}
      [] OTHER ->
             {"title", "type", "website", "imageUrl", "description",
              "descriptionSource", "descriptionLink", "attributes"}

\* The items from position k on, processed one by one: an item that
\* lacks a required key raises KeyError and is skipped; an organic item
\* keeps its sitelinks.
RECURSIVE ProcessFrom(_, _, _)
ProcessFrom(section, items, k) ==
    IF k > Len(items) THEN <<>>
    ELSE (IF RequiredKeys(section) \subseteq items[k].keys
          THEN << [id |-> items[k].id,
                   keys |-> ProcessedKeys(section) \cup
                            (IF section = "organic"
                             THEN items[k].keys \cap {"sitelinks"}
                             ELSE {})] >>
          ELSE <<>>)
         \o ProcessFrom(section, items, k + 1)

\* items[:n]: the first n items, all of them when there are fewer; for a
\* negative n all but the last -n.
SliceTo(items, n) ==
    IF n >= 0 THEN SubSeq(items, 1, Min(n, Len(items)))
    ELSE SubSeq(items, 1, Len(items) + n)

\* A list processor that skips invalid items before it truncates.
ProcessList_SkipsFirst(section, items, n) ==
    SliceTo(ProcessFrom(section, items, 1), n)

\* _process_organic_results, _process_people_also_ask,
\* _process_related_searches, _process_news_results: loop over
\* results[:self.n_results].
ProcessList(section, items, n) ==
    ProcessFrom(section, SliceTo(items, n), 1)

\* _process_knowledge_graph: every key with kg.get and a default.
ProcessKnowledgeGraph(kg) ==
    << [id |-> kg.id, keys |-> ProcessedKeys("knowledgeGraph")] >>

\* The items of a list section of a response: a complete item, an item
\* without any required key, a complete item.
SectionItems(section) ==
    << [id |-> 1, keys |-> RequiredKeys(section)],
       [id |-> 2, keys |-> {"snippet"}],
       [id |-> 3, keys |-> RequiredKeys(section) \cup {"snippet"}] >>

\* _process_search_results: the sections of the response that belong to
\* self.search_type, compared as it is written, each one processed.
ProcessSearchResults(search_type, sections, n) ==
    LET known == IF search_type = "search" THEN SearchSections
                 ELSE IF search_type = "news" THEN NewsSections
                 ELSE {}
    IN  [sec \in sections \cap known |->
            IF sec = "knowledgeGraph"
            THEN ProcessKnowledgeGraph([id |-> 0, keys |-> {"title"}])
            ELSE ProcessList(sec, SectionItems(sec), n)]

\* No section.
NoResult == [sec \in {} |-> <<>>]

Called(op, found, limit) ==
    [op |-> op, pc |-> "called", n_calls |-> 0, found |-> found,
     limit |-> limit, fetched |-> 0, n_result |-> 0, outcome |-> "none",
     search_type |-> "none", n_results |-> 0, response |-> "none",
     sections |-> {}, result |-> NoResult, error |-> "none"]

InitOps ==
    /\ CrawlEntered([start_url |-> ExampleCom, max_pages |-> 50])
    /\ adapter = CrawlTool
    /\ invocation \in
           { Called(op, 0, 0) :
             op \in {"search", "get_ticker_info", "read_paper"} }
           \cup { Called("search_tickers", found, limit) :
                  found \in 0..MaxTickers, limit \in 0..MaxLimit }
           \cup { Called("youtube_search", 0, limit) :
                  limit \in 0..MaxLimit }
           \cup { [Called("serper_search", 0, 0) EXCEPT
                     !.search_type = t, !.n_results = n] :
                  t \in SearchTypes, n \in NResults }

\* A search that asks again after a response other than 200.
Search_Retries ==
    /\ invocation.op = "search"
    /\ invocation.pc = "called"
    /\ \E resp \in {"raised", "500", "200", "200 json_content",
                      "200 undecodable"} :
          invocation' =
              [invocation EXCEPT
                 !.n_calls = IF resp = "500" THEN 2 ELSE 1,
                 !.response = resp,
                 !.pc = "returned",
                 !.outcome = CASE resp = "200" -> "result"
                               [] resp = "200 json_content" -> "json_content"
                               [] OTHER -> "error"]
    /\ UNCHANGED <<crawl_vars, adapter>>

\* OlostepWebSearchTool.search: one requests.post; the JSON of a 200
\* response (or its json_content) is returned, anything else, an exception
\* or a body that is no JSON included, as {"error": ...}.
Search ==
    /\ invocation.op = "search"
    /\ invocation.pc = "called"
    /\ \E resp \in {"raised", "500", "200", "200 json_content",
                      "200 undecodable"} :
          invocation' =
              [invocation EXCEPT
                 !.n_calls = 1,
                 !.response = resp,
                 !.pc = "returned",
                 !.outcome = CASE resp = "200" -> "result"
                               [] resp = "200 json_content" -> "json_content"
                               [] OTHER -> "error"]
    /\ UNCHANGED <<crawl_vars, adapter>>

\* YFinanceTool.get_ticker_info: yf.Ticker(ticker).info, whose exception
\* propagates.
GetTickerInfo ==
    /\ invocation.op = "get_ticker_info"
    /\ invocation.pc = "called"
    /\ \E resp \in {"raised", "info"} :
          invocation' =
              [invocation EXCEPT
                 !.n_calls = 1,
                 !.pc = IF resp = "raised" THEN "raised" ELSE "returned",
                 !.outcome = IF resp = "raised" THEN "none" ELSE "info"]
    /\ UNCHANGED <<crawl_vars, adapter>>

\* YFinanceTool.search_tickers, up to its loop: yf.Tickers(query) builds
\* the ticker objects of the symbols in query without a request; when it
\* raises, [] is returned.
Tickers ==
    /\ invocation.op = "search_tickers"
    /\ invocation.pc = "called"
    /\ \E r \in {"raised", "tickers"} :
          invocation' =
              IF r = "raised"
              THEN [invocation EXCEPT !.pc = "returned", !.outcome = "list"]
              ELSE [invocation EXCEPT !.pc = "fetching"]
    /\ UNCHANGED <<crawl_vars, adapter>>

\* One round of the loop over found_tickers[:limit]: .info of the next
\* symbol is fetched; a symbol whose fetch raises is skipped.
TickerInfo ==
    /\ invocation.op = "search_tickers"
    /\ invocation.pc = "fetching"
    /\ invocation.fetched < Min(invocation.found, invocation.limit)
    /\ \E resp \in {"raised", "info"} :
          invocation' =
              [invocation EXCEPT
                 !.n_calls = @ + 1,
                 !.fetched = @ + 1,
                 !.n_result = IF resp = "info" THEN @ + 1 ELSE @]
    /\ UNCHANGED <<crawl_vars, adapter>>

\* The loop is over: return result.
ReturnTickers ==
    /\ invocation.op = "search_tickers"
    /\ invocation.pc = "fetching"
    /\ invocation.fetched = Min(invocation.found, invocation.limit)
    /\ invocation' = [invocation EXCEPT !.pc = "returned", !.outcome = "list"]
    /\ UNCHANGED <<crawl_vars, adapter>>

\* ArxivTool.read_paper, the lookup: client.results(search), whose
\* exception propagates; no result returns {"error": ...}.
LookupPaper ==
    /\ invocation.op = "read_paper"
    /\ invocation.pc = "called"
    /\ \E r \in {"raised", "empty", "found"} :
          invocation' =
              [invocation EXCEPT
                 !.n_calls = 1,
                 !.pc = CASE r = "raised" -> "raised"
                          [] r = "empty" -> "returned"
                          [] OTHER -> "found",
                 !.outcome = IF r = "empty" THEN "not found" ELSE "none"]
    /\ UNCHANGED <<crawl_vars, adapter>>

\* ArxivTool.read_paper, the download: requests.get(paper.pdf_url); the
\* paper with its content when the PDF is read, with "success": False on
\* an exception, an HTTP error or an unreadable file.
DownloadPdf ==
    /\ invocation.op = "read_paper"
    /\ invocation.pc = "found"
    /\ \E resp \in {"raised", "404", "pdf", "unreadable"} :
          invocation' =
              [invocation EXCEPT
                 !.n_calls = @ + 1,
                 !.pc = "returned",
                 !.outcome = IF resp = "pdf" THEN "success" ELSE "failure"]
    /\ UNCHANGED <<crawl_vars, adapter>>

\* A YoutubeSearch.search that lets the exception of its request through.
SearchYoutube_Propagates ==
    /\ invocation.op = "youtube_search"
    /\ invocation.pc = "called"
    /\ \E resp \in {"raised", "403", "undecodable", "videos", "organic",
                      "neither"}, found \in 0..MaxVideos,
          kept \in 0..MaxVideos :
          /\ resp \notin {"videos", "organic"} => found = 0
          /\ kept <= Min(found, invocation.limit)
          /\ resp # "organic" => kept = Min(found, invocation.limit)
          /\ invocation' =
                 [invocation EXCEPT
                    !.n_calls = 1,
                    !.response = resp,
                    !.found = found,
                    !.pc = IF resp = "raised" THEN "raised" ELSE "returned",
                    !.error = IF resp = "raised" THEN "RequestException"
                              ELSE "none",
                    !.outcome =
                        IF resp = "raised" THEN "none"
                        ELSE IF resp \in {"403", "undecodable"} THEN "error"
                        ELSE IF kept = 0 THEN "message" ELSE "videos",
                    !.n_result =
                        IF resp = "raised" THEN 0
                        ELSE IF resp \in {"403", "undecodable"} THEN 1
                        ELSE IF kept = 0 THEN 1 ELSE kept]
    /\ UNCHANGED <<crawl_vars, adapter>>

\* YoutubeSearch.search: one requests.post; the first limit videos of the
\* response (or those of its first limit organic items that link to
\* YouTube: kept of them), a single message entry when there is none, a
\* single error entry on any exception (request, raise_for_status,
\* .json()).  found is the length of the list in the response.
SearchYoutube ==
    /\ invocation.op = "youtube_search"
    /\ invocation.pc = "called"
    /\ \E resp \in {"raised", "403", "undecodable", "videos", "organic",
                      "neither"}, found \in 0..MaxVideos,
          kept \in 0..MaxVideos :
          /\ resp \notin {"videos", "organic"} => found = 0
          /\ kept <= Min(found, invocation.limit)
          /\ resp # "organic" => kept = Min(found, invocation.limit)
          /\ invocation' =
                 [invocation EXCEPT
                    !.n_calls = 1,
                    !.response = resp,
                    !.found = found,
                    !.pc = "returned",
                    !.outcome =
                        IF resp \in {"raised", "403", "undecodable"}
                        THEN "error"
                        ELSE IF kept = 0 THEN "message" ELSE "videos",
                    !.n_result =
                        IF resp \in {"raised", "403", "undecodable"} THEN 1
                        ELSE IF kept = 0 THEN 1 ELSE kept]
    /\ UNCHANGED <<crawl_vars, adapter>>

\* _get_search_url: the lowered search type is one of "search", "news".
AllowedSearchType(search_type) == Lower(search_type) \in {"search", "news"}

\* SerperDev.search: _get_search_url raises ValueError for a search type
\* that is not allowed; otherwise one requests.post.  A request exception,
\* an HTTP error status and a body that is no JSON raise RuntimeError, an
\* empty JSON raises ValueError; otherwise the processed sections of the
\* response are returned (result; searchParameters and credits, which
\* are always there, are left out).
SerperSearch ==
    /\ invocation.op = "serper_search"
    /\ invocation.pc = "called"
    /\ IF ~AllowedSearchType(invocation.search_type)
       THEN invocation' = [invocation EXCEPT !.pc = "raised",
                                             !.error = "ValueError"]
       ELSE \E resp \in {"raised", "500", "undecodable", "empty", "json"},
               sections \in SUBSET (SearchSections \cup NewsSections) :
               /\ resp # "json" => sections = {}
               /\ invocation' =
                      [invocation EXCEPT
                         !.n_calls = 1,
                         !.response = resp,
                         !.sections = sections,
                         !.pc = IF resp = "json" THEN "returned"
                                ELSE "raised",
                         !.error = CASE resp = "json" -> "none"
                                     [] resp = "empty" -> "ValueError"
                                     [] OTHER -> "RuntimeError",
                         !.outcome = IF resp = "json" THEN "results"
                                     ELSE "none",
                         !.result =
                             IF resp = "json"
                             THEN ProcessSearchResults(
                                      invocation.search_type, sections,
                                      invocation.n_results)
                             ELSE NoResult]
    /\ UNCHANGED <<crawl_vars, adapter>>

NextOps ==
    \/ Search
    \/ SearchYoutube
    \/ SerperSearch
    \/ GetTickerInfo
    \/ Tickers
    \/ TickerInfo
    \/ ReturnTickers
    \/ LookupPaper
    \/ DownloadPdf

SpecOps == InitOps /\ [][NextOps]_vars

-----------------------------------------------------------------------------
(* One invocation of any operation: crawl_website, or one of the other     *)
(* operations while crawl_website is not running.                          *)

\* crawl_website has not been called.
CrawlNotCalled ==
    /\ pc = "idle"
    /\ crawl_data = [start_url |-> ExampleCom, max_pages |-> 50]
    /\ crawl_id = None
    /\ status = None
    /\ crawled_pages = <<>>
    /\ task = <<>>
    /\ future = <<>>
    /\ results = <<>>
    /\ formatted_output = EmptyStr
    /\ error = NoError
    /\ last_response = NoResponse
    /\ response = <<>>
    /\ n_post = 0
    /\ n_status = 0
    /\ n_pages = 0
    /\ n_retrieve = <<>>
    /\ n_sleep = 0
    /\ n_nonterminal = 0
    /\ slept = 0

InitCalls ==
    \/ Init
    \/ /\ CrawlNotCalled
       /\ adapter = CrawlTool
       /\ invocation \in
              { Called(op, 0, 0) :
                op \in {"search", "get_ticker_info", "read_paper"} }
              \cup { Called("search_tickers", found, limit) :
                     found \in 0..MaxTickers, limit \in 0..MaxLimit }
              \cup { Called("youtube_search", 0, limit) :
                     limit \in 0..MaxLimit }
              \cup { [Called("serper_search", 0, 0) EXCEPT
                        !.search_type = t, !.n_results = n] :
                     t \in SearchTypes, n \in NResults }

NextCalls ==
    \/ Next
    \/ NextOps

SpecCalls == InitCalls /\ [][NextCalls]_vars

-----------------------------------------------------------------------------
(* The list processors of SerperDev, applied to one list.                  *)
(*                                                                         *)
(* invocation holds the section whose processor is called, the list it is  *)
(* given (items; the id of an item is its position), self.n_results (n)    *)
(* and, once the processor has returned, its result.                       *)

\* Longest list given to a processor.
MaxItems == 3

\* The sections that are lists.
ListSections == {"organic", "peopleAlsoAsk", "relatedSearches", "news"}

\* The keys an item of a section may come with: every required key, or
\* the required keys but one.
ItemKeys(section) ==
    { RequiredKeys(section) \cup {"snippet"},
      (RequiredKeys(section) \ {"link", "question", "query"})
          \cup {"snippet"} }

\* The lists of at most MaxItems items of a section.
ItemLists(section) ==
    UNION { { [k \in 1..len |-> [id |-> k, keys |-> keys[k]]] :
              keys \in [1..len -> ItemKeys(section)] } :
            len \in 0..MaxItems }

InitProcessors ==
    /\ CrawlNotCalled
    /\ adapter = CrawlTool
    /\ \E section \in ListSections :
          invocation \in
              { [op |-> "process", pc |-> "called", section |-> section,
                 items |-> items, n |-> n, result |-> <<>>] :
                items \in ItemLists(section), n \in NResults }

\* The processor of the section is called on the list and returns.
ProcessResults ==
    /\ invocation.op = "process"
    /\ invocation.pc = "called"
    /\ invocation' =
           [invocation EXCEPT
              !.pc = "returned",
              !.result = ProcessList(invocation.section, invocation.items,
                                     invocation.n)]
    /\ UNCHANGED <<crawl_vars, adapter>>

NextProcessors == ProcessResults

SpecProcessors == InitProcessors /\ [][NextProcessors]_vars

-----------------------------------------------------------------------------
(* The fetch stage over a listing longer than the pool.                    *)

\* Length of the listing: one descriptor more than the pool has workers.
PoolPages == 11

\* "/a"
PoolUrl == <<47, 97>>

\* PoolPages descriptors that each issue a retrieval request.
PoolListing ==
    [i \in 1..PoolPages |-> [url |-> PoolUrl, retrieve_id |-> "r1"]]

\* Every retrieval is answered with status 200 and content.
PoolResponses ==
    { [raised |-> FALSE, status_code |-> 200, text |-> "",
       has_markdown |-> TRUE, markdown_content |-> ContentA] }

\* crawl_website after the job was created, the first status query
\* returned completed, the pages listing returned PoolListing and one task
\* per descriptor was submitted to the executor.
InitPool ==
    /\ pc = "fetch"
    /\ crawl_data = [start_url |-> ExampleCom, max_pages |-> 50]
    /\ crawl_id = "job-1"
    /\ status = "completed"
    /\ crawled_pages = PoolListing
    /\ task = [i \in 1..PoolPages |-> "queued"]
    /\ future = [i \in 1..PoolPages |-> <<>>]
    /\ results = <<>>
    /\ formatted_output = EmptyStr
    /\ error = NoError
    /\ last_response =
           [stage |-> "pages", status_code |-> 200, text |-> "",
            id |-> None, status |-> None, error |-> None]
    /\ response = [i \in 1..PoolPages |-> <<>>]
    /\ n_post = 1
    /\ n_status = 1
    /\ n_pages = 1
    /\ n_retrieve = [i \in 1..PoolPages |-> 0]
    /\ n_sleep = 0
    /\ n_nonterminal = 0
    /\ slept = 0
    /\ adapter = CrawlTool
    /\ invocation = NoInvocation

NextPool ==
    \/ \E i \in DOMAIN task : RetrieveStart(i)
    \/ \E i \in DOMAIN task : RetrieveFinishWith(i, PoolResponses)
    \/ \E i \in DOMAIN task : AsCompleted(i)
    \/ SortAndFormat

SpecPool == InitPool /\ [][NextPool]_vars

-----------------------------------------------------------------------------
(* Vocabulary of the properties. *)

Pages == DOMAIN crawled_pages

\* The retrieval request of page i was issued and has come back.
Answered(i) == response[i] # <<>>

\* The retrieval of page i failed: it raised or its status is no success.
FetchFailed(i) ==
    /\ Answered(i)
    /\ \/ response[i][1].raised
       \/ ~HttpSuccess(response[i][1].status_code)

\* The retrieval of page i raised or came back with a status other than
\* 200.
FetchRejected(i) ==
    /\ Answered(i)
    /\ \/ response[i][1].raised
       \/ response[i][1].status_code # 200

\* The retrieval of page i came back with empty or missing content.
EmptyContent(i) ==
    /\ Answered(i)
    /\ ~response[i][1].raised
    /\ \/ ~response[i][1].has_markdown
       \/ response[i][1].markdown_content = EmptyStr

\* The descriptor of page i has a url and a retrieve_id, both non-empty.
Complete(i) ==
    /\ crawled_pages[i].url # EmptyStr
    /\ crawled_pages[i].retrieve_id # None
    /\ crawled_pages[i].retrieve_id # ""

\* The entry of page i: its url and the content of its response.
EntryOf(i) ==
    [url |-> crawled_pages[i].url,
     content |-> response[i][1].markdown_content]

\* The orderings of a set of pages.
Orderings(S) ==
    { ord \in [1..Cardinality(S) -> S] :
        \A j, k \in 1..Cardinality(S) : j # k => ord[j] # ord[k] }

\* The results of the futures fs that are not None, in the futures' order.
RECURSIVE InListingOrder(_)
InListingOrder(fs) ==
    IF fs = <<>> THEN <<>> ELSE fs[1] \o InListingOrder(Tail(fs))

\* The call has returned its string.
Returned == pc = "done"

\* Every future has been yielded: sorting and formatting may start.
FetchStageOver == (pc = "fetch" /\ AllYielded) \/ pc = "done"

-----------------------------------------------------------------------------
(* C1: a page whose retrieval failed (non-success status or exception) or  *)
(* came back with empty or missing content never appears in the returned   *)
(* string: the string is made of entries of the other pages only, each     *)
(* used at most once, whatever the completion order.                       *)
C1_DroppedPagesAbsent ==
    Returned =>
        \E S \in SUBSET { i \in Pages :
                            Answered(i) /\ ~FetchFailed(i) /\ ~EmptyContent(i) } :
            \E ord \in Orderings(S) :
                formatted_output =
                    FormatOutput([k \in 1..Cardinality(S) |-> EntryOf(ord[k])])

\* A call returned a non-empty string although the retrieval of one of
\* its pages failed or came back with empty content.
C1_Witness ==
    /\ Returned
    /\ formatted_output # EmptyStr
    /\ \E i \in Pages : FetchFailed(i) \/ EmptyContent(i)

-----------------------------------------------------------------------------
(* C2, as stated: in the returned string each entry's URL is strictly      *)
(* greater than the URL of the entry before it.                            *)
C2_StrictlyAscending ==
    Returned =>
        /\ formatted_output = FormatOutput(results)
        /\ \A k \in 1..(Len(results) - 1) :
               StrLess(results[k].url, results[k + 1].url)

(* C2, amended: in the returned string no entry's URL is less than the URL *)
(* of the entry before it, and two neighbours have the same URL only when  *)
(* two page descriptors of the listing have that URL.                      *)
C2_Ascending ==
    Returned =>
        /\ formatted_output = FormatOutput(results)
        /\ \A k \in 1..(Len(results) - 1) :
               \/ StrLess(results[k].url, results[k + 1].url)
               \/ /\ results[k].url = results[k + 1].url
                  /\ \E i, j \in Pages :
                         /\ i # j
                         /\ crawled_pages[i].url = results[k].url
                         /\ crawled_pages[j].url = results[k].url

\* Two entries were returned in ascending order of URLs that the listing
\* gave in descending order.
C2_Witness ==
    /\ Returned
    /\ Len(results) = 2
    /\ StrLess(results[1].url, results[2].url)
    /\ StrLess(crawled_pages[2].url, crawled_pages[1].url)

-----------------------------------------------------------------------------
(* C3: the returned string is determined by the page descriptors and their *)
(* responses alone.  One completion order is the order of the listing, so  *)
(* the claim says that every run returns what that run returns: the        *)
(* entries of the pages the code keeps, sorted from the listing's order.   *)
C3_Deterministic ==
    Returned =>
        formatted_output = FormatOutput(SortByUrl(InListingOrder(future)))

-----------------------------------------------------------------------------
(* C4, as stated: of N page descriptors with K failing retrievals          *)
(* (non-success status or exception) the result set has N - K entries, and *)
(* no exception leaves the pool.                                           *)
C4_AllButFailed ==
    /\ FetchStageOver =>
           Len(results) =
               Cardinality(Pages) - Cardinality({ i \in Pages : FetchFailed(i) })
    /\ pc = "raised" => task = <<>>

(* C4, amended: the result set has one entry for each page descriptor that *)
(* has a url and a retrieve_id and whose retrieval came back with status   *)
(* 200 and non-empty content; every other page (no request, an exception,  *)
(* a status other than 200, empty or missing content) is dropped.  No      *)
(* exception leaves the pool: the call raises only before the pool starts. *)
C4_AllButDropped ==
    /\ FetchStageOver =>
           Len(results) =
               Cardinality(Pages)
                 - Cardinality({ i \in Pages :
                                   \/ ~Complete(i)
                                   \/ ~Answered(i)
                                   \/ FetchRejected(i)
                                   \/ EmptyContent(i) })
    /\ pc \in {"fetch", "done"} => error = NoError
    /\ pc = "raised" => task = <<>> /\ results = <<>>

\* The fetch stage ended with a failed page, a page with empty content and
\* nothing raised.
C4_Witness ==
    /\ FetchStageOver
    /\ Cardinality(Pages) = 2
    /\ Len(results) = 1
    /\ \E i \in Pages : FetchFailed(i)
    /\ error = NoError

-----------------------------------------------------------------------------
(* C5, as stated: when aggregation starts, exactly one retrieval request   *)
(* has been issued for every page descriptor of the listing.               *)
C5_OneRequestEach ==
    FetchStageOver => \A i \in Pages : n_retrieve[i] = 1

(* C5, amended: never more than one retrieval request is issued for a page *)
(* descriptor; when aggregation starts, exactly one has been issued for    *)
(* every descriptor that has a non-empty url and a non-empty retrieve_id,  *)
(* and none for the others.                                                *)
C5_OneRequestIfComplete ==
    /\ \A i \in Pages : n_retrieve[i] <= 1
    /\ FetchStageOver =>
           \A i \in Pages : n_retrieve[i] = (IF Complete(i) THEN 1 ELSE 0)

\* Aggregation starts after one page was retrieved and one was skipped.
C5_Witness ==
    /\ FetchStageOver
    /\ \E i \in Pages : Complete(i) /\ n_retrieve[i] = 1
    /\ \E i \in Pages : ~Complete(i) /\ n_retrieve[i] = 0

-----------------------------------------------------------------------------
(* Vocabulary of the properties about the requests of the calling thread.  *)

NonTerminal(st) == st \notin {"completed", "failed"}

\* No retrieval request was issued.
NoRetrieval == \A i \in DOMAIN n_retrieve : n_retrieve[i] = 0

\* The pages listing was requested, at this state or before it.
PagesRequested == n_pages > 0

\* The polling loop was left by its break.
PollingLeft == pc \in {"pages", "fetch", "done"} \/ PagesRequested

-----------------------------------------------------------------------------
(* C6, as stated: after k status responses that are HTTP successes with a  *)
(* non-terminal status the loop goes on to another query; when the next    *)
(* response is an HTTP success with status completed, the loop stops with  *)
(* exactly k + 1 queries issued; the pages listing is requested only after *)
(* a status query returned completed.                                      *)
C6_SuccessThenCompleted ==
    /\ ( /\ last_response.stage = "status"
         /\ HttpSuccess(last_response.status_code)
         /\ NonTerminal(last_response.status) )
       => pc \in {"sleep", "poll"} /\ n_status = n_nonterminal
    /\ ( /\ last_response.stage = "status"
         /\ HttpSuccess(last_response.status_code)
         /\ last_response.status = "completed" )
       => pc = "pages" /\ n_status = n_nonterminal + 1
    /\ PollingLeft => status = "completed" /\ n_status = n_nonterminal + 1

(* C6, amended: the same, for status responses with HTTP status 200 (the   *)
(* code takes every other status code, 201 or 204 included, as a failure   *)
(* of the status check).                                                   *)
C6_OkThenCompleted ==
    /\ ( /\ last_response.stage = "status"
         /\ last_response.status_code = 200
         /\ NonTerminal(last_response.status) )
       => pc \in {"sleep", "poll"} /\ n_status = n_nonterminal
    /\ ( /\ last_response.stage = "status"
         /\ last_response.status_code = 200
         /\ last_response.status = "completed" )
       => pc = "pages" /\ n_status = n_nonterminal + 1
    /\ PollingLeft => status = "completed" /\ n_status = n_nonterminal + 1

\* [running, running, completed]: the third status query returned
\* completed and the pages listing is the next request.
C6_Witness ==
    /\ pc = "pages"
    /\ n_nonterminal = 2
    /\ n_status = 3
    /\ n_pages = 0
    /\ last_response.status = "completed"

-----------------------------------------------------------------------------
(* C7: when a status query returns status failed the call raises the       *)
(* "Crawl failed" exception carrying the provider's error detail, the      *)
(* failed response is the last status query, and neither the pages listing *)
(* nor any retrieval is requested.                                         *)
C7_FailedStatusRaises ==
    status = "failed" =>
        /\ pc = "raised"
        /\ error = [type |-> "Exception",
                    message |-> "Crawl failed: "
                        \o (IF last_response.error = None
                            THEN "Unknown error" ELSE last_response.error)]
        /\ last_response.stage = "status"
        /\ n_status = n_nonterminal + 1
        /\ n_pages = 0
        /\ task = <<>> /\ NoRetrieval

\* [running, failed] with an error detail in the failed response.
C7_Witness ==
    /\ status = "failed"
    /\ n_nonterminal = 1
    /\ n_status = 2
    /\ last_response.error = "boom"

-----------------------------------------------------------------------------
(* C8: crawl_website("https://example.com", max_pages=2) with job id       *)
(* "job-1", status completed, pages (a, r1) and (b, r2), content "A" for   *)
(* r1 and the empty string for r2 returns "https://example.com/a\nA".      *)
C8_Scenario ==
    /\ crawl_data = [start_url |-> ExampleCom, max_pages |-> 2]
    /\ crawl_id = "job-1"
    /\ status = "completed"
    /\ crawled_pages = << [url |-> ExampleA, retrieve_id |-> "r1"],
                          [url |-> ExampleB, retrieve_id |-> "r2"] >>
    /\ Returned
    /\ response[1] = << [raised |-> FALSE, status_code |-> 200, text |-> "",
                         has_markdown |-> TRUE,
                         markdown_content |-> ContentA] >>
    /\ response[2] = << [raised |-> FALSE, status_code |-> 200, text |-> "",
                         has_markdown |-> TRUE,
                         markdown_content |-> EmptyStr] >>

C8_EndToEnd ==
    C8_Scenario =>
        formatted_output =
            <<104, 116, 116, 112, 115, 58, 47, 47,
              101, 120, 97, 109, 112, 108, 101, 46, 99, 111, 109, 47, 97,
              10, 65>>

\* The scenario has run to its end.
C8_Witness == C8_Scenario /\ n_post = 1 /\ n_pages = 1

-----------------------------------------------------------------------------
(* C9: a non-success HTTP status on the job creation, on a status check or *)
(* on the pages listing makes the call raise the exception of that stage,  *)
(* carrying the status code and the response body, and no request follows  *)
(* the failing response.                                                   *)
C9_HttpFailureRaises ==
    ( /\ last_response.stage # "none"
      /\ ~HttpSuccess(last_response.status_code) )
    =>
        /\ pc = "raised"
        /\ error.type = "Exception"
        /\ error.message =
               (CASE last_response.stage = "initiate" ->
                        "Error initiating crawl: "
                  [] last_response.stage = "status" ->
                        "Error checking crawl status: "
                  [] last_response.stage = "pages" ->
                        "Error getting crawled pages: ")
               \o ToString(last_response.status_code)
               \o " - " \o last_response.text
        /\ last_response.stage = "initiate" => n_status = 0
        /\ last_response.stage = "status" => n_status = n_nonterminal + 1
        /\ last_response.stage \in {"initiate", "status"} => n_pages = 0
        /\ last_response.stage = "pages" => n_pages = 1
        /\ task = <<>> /\ NoRetrieval

\* The pages listing came back with status 500 and a body.
C9_Witness ==
    /\ last_response.stage = "pages"
    /\ last_response.status_code = 500
    /\ last_response.text = "oops"
    /\ pc = "raised"

-----------------------------------------------------------------------------
(* C10, as stated: when the job creation returns an HTTP success without a *)
(* job identifier, the call raises the "Failed to get crawl ID" exception  *)
(* and issues no status query, pages listing or retrieval.                 *)
C10_SuccessWithoutId ==
    ( /\ last_response.stage = "initiate"
      /\ HttpSuccess(last_response.status_code)
      /\ last_response.id \in {None, ""} )
    =>
        /\ pc = "raised"
        /\ error = [type |-> "Exception",
                    message |-> "Failed to get crawl ID from response"]
        /\ n_status = 0 /\ n_pages = 0 /\ task = <<>> /\ NoRetrieval

(* C10, amended: the same, when the job creation returns HTTP status 200   *)
(* without a job identifier (absent or empty); any other status code, 201  *)
(* included, raises the "Error initiating crawl" exception instead.        *)
C10_OkWithoutId ==
    ( /\ last_response.stage = "initiate"
      /\ last_response.status_code = 200
      /\ last_response.id \in {None, ""} )
    =>
        /\ pc = "raised"
        /\ error = [type |-> "Exception",
                    message |-> "Failed to get crawl ID from response"]
        /\ n_status = 0 /\ n_pages = 0 /\ task = <<>> /\ NoRetrieval

\* The job creation came back with status 200 and no id field.
C10_Witness ==
    /\ last_response.stage = "initiate"
    /\ last_response.status_code = 200
    /\ last_response.id = None
    /\ pc = "raised"

-----------------------------------------------------------------------------
(* Vocabulary of the reference aggregation. *)

\* The page results the fetch stage keeps: the pages whose retrieval came
\* back with status 200 and non-empty content.
Successful ==
    { i \in Pages : Answered(i) /\ ~FetchRejected(i) /\ ~EmptyContent(i) }

\* "<url>\n<content>"
ReferenceEntry(e) == e.url \o <<10>> \o e.content

\* The entries es, each formatted, joined with "\n\n".
RECURSIVE ReferenceJoin(_)
ReferenceJoin(es) ==
    IF es = <<>> THEN <<>>
    ELSE IF Len(es) = 1 THEN ReferenceEntry(es[1])
    ELSE ReferenceEntry(es[1]) \o <<10, 10>> \o ReferenceJoin(Tail(es))

\* The URLs of the pages in the order ord ascend.
AscendingByUrl(ord) ==
    \A k \in 1..(Len(ord) - 1) :
        ~StrLess(crawled_pages[ord[k + 1]].url, crawled_pages[ord[k]].url)

-----------------------------------------------------------------------------
(* C11: the returned string is the reference aggregation of the successful *)
(* page results: all of them, in an order ascending by URL, each formatted *)
(* as "<url>\n<content>", joined with "\n\n" without leading or trailing   *)
(* separator; with no successful page result it is the empty string.       *)
C11_ReferenceAggregation ==
    Returned =>
        /\ \E ord \in Orderings(Successful) :
               /\ AscendingByUrl(ord)
               /\ formatted_output =
                      ReferenceJoin([k \in 1..Cardinality(Successful) |->
                                         EntryOf(ord[k])])
        /\ Successful = {} => formatted_output = <<>>

\* Two successful pages were returned, joined by one separator.
C11_Witness ==
    /\ Returned
    /\ Cardinality(Successful) = 2
    /\ Len(formatted_output) > 2 * Len(ExampleA)

\* Every page of a non-empty listing was dropped and the empty string
\* returned.
C11_WitnessEmpty ==
    /\ Returned
    /\ Pages # {}
    /\ Successful = {}
    /\ formatted_output = <<>>

-----------------------------------------------------------------------------
(* C12: the pages listing is requested exactly once in a call whose job    *)
(* was observed completed, only after the status query that returned       *)
(* completed, and never while the last observed status is non-terminal.    *)
C12_PagesListedOnceAfterCompleted ==
    /\ n_pages <= 1
    /\ n_pages = 1 => status = "completed" /\ n_status = n_nonterminal + 1
    /\ status = "completed" =>
           \/ pc = "pages" /\ n_pages = 0
           \/ pc \in {"fetch", "done", "raised"} /\ n_pages = 1
    /\ NonTerminal(status) => n_pages = 0

\* The pages listing has been requested once, after [running, completed].
C12_Witness ==
    /\ n_pages = 1
    /\ n_status = 2
    /\ status = "completed"
    /\ pc = "fetch"

-----------------------------------------------------------------------------
\* A status query is answered in this step, with the HTTP status code and
\* the job status of last_response'.
StatusAnswered == pc = "poll" /\ n_status' = n_status + 1

(* C18, as stated: the polling loop has no maximum number of iterations:   *)
(* however many status responses were HTTP successes with a status other   *)
(* than completed or failed, the call waits and issues a further status    *)
(* query.  (Violated: a 201 response ends the call.)                       *)
C18_SuccessPollsAgain ==
    [][ ( /\ StatusAnswered
          /\ HttpSuccess(last_response'.status_code)
          /\ NonTerminal(last_response'.status) )
        => pc' = "sleep" /\ error' = NoError ]_vars

(* C18, amended: the polling loop has no maximum number of iterations: a   *)
(* status response with HTTP status 200 and a status other than completed  *)
(* or failed always leads to the wait, whatever the number of queries made *)
(* so far; the wait always leads back to the query with nothing raised;    *)
(* and the query and the wait are always able to run.                      *)
C18_OkPollsAgain ==
    /\ [][ ( /\ StatusAnswered
              /\ last_response'.status_code = 200
              /\ NonTerminal(last_response'.status) )
            => pc' = "sleep" /\ error' = NoError ]_vars
    /\ [][ pc = "sleep"
            => pc' = "poll" /\ n_status' = n_status /\ error' = NoError ]_vars
    /\ [](pc = "sleep" => ENABLED Sleep)
    /\ [](pc = "poll" => ENABLED CheckStatus)

\* MaxPolls status responses were 200 with a non-terminal status, as many
\* waits followed, and the next status query is about to be issued.
C18_Witness ==
    /\ pc = "poll"
    /\ n_status = MaxPolls
    /\ n_nonterminal = MaxPolls
    /\ n_sleep = MaxPolls
    /\ last_response.status_code = 200
    /\ error = NoError

-----------------------------------------------------------------------------
(* The stage of the crawl workflow a state is in, by the position of       *)
(* crawl_website: Created until the job-creation request is answered,      *)
(* Submitted once the job identifier is held, Polling from the first       *)
(* status query until the pages listing is answered, PagesListed while the *)
(* listing is held and no retrieval has started, Fetching while retrievals *)
(* run and are collected, Aggregated once the string is returned.  Failed  *)
(* is the exit on a status response that reports the job failed; every     *)
(* other raise propagates out of the stage it happens in.                  *)
Stage ==
    CASE pc = "initiate" -> "Created"
      [] pc = "poll" /\ n_status = 0 -> "Submitted"
      [] pc \in {"poll", "sleep", "pages"} -> "Polling"
      [] pc = "fetch" /\ (\A i \in DOMAIN task : task[i] = "queued")
             -> "PagesListed"
      [] pc = "fetch" -> "Fetching"
      [] pc = "done" -> "Aggregated"
      [] pc = "raised" /\ last_response.stage = "status"
                      /\ last_response.status_code = 200
                      /\ last_response.status = "failed" -> "Failed"
      [] OTHER -> "Propagated"

StageOrder ==
    <<"Created", "Submitted", "Polling", "PagesListed", "Fetching",
      "Aggregated">>

Rank(s) == CHOOSE r \in 1..Len(StageOrder) : StageOrder[r] = s

InFlow(s) == \E r \in 1..Len(StageOrder) : StageOrder[r] = s

\* The requests issued so far.
Requests == <<n_post, n_status, n_pages, n_retrieve>>

(* C19: every step of crawl_website stays in its stage or moves to the     *)
(* next stage of Created, Submitted, Polling, PagesListed, Fetching,       *)
(* Aggregated (the first status query is the Polling stage of a job whose  *)
(* first answer ends the loop, and the pool of an empty listing fetches    *)
(* nothing); Failed is entered only by a status response, so only from     *)
(* Polling; no other error exit leads to Failed, and none leaves           *)
(* PagesListed, Fetching or Aggregated; and once the call has raised or    *)
(* returned no step, hence no request, follows.                            *)
C19_StagesInOrder ==
    /\ [][ \/ Stage' = Stage
            \/ /\ InFlow(Stage) /\ InFlow(Stage')
               /\ Rank(Stage') = Rank(Stage) + 1
            \/ /\ Stage = "Submitted"
               /\ n_status' = n_status + 1
               /\ Stage' \in {"Failed", "Propagated"}
            \/ /\ Stage = "Polling"
               /\ n_status' = n_status + 1
               /\ Stage' = "Failed"
            \/ /\ Stage \in {"Created", "Polling"}
               /\ Stage' = "Propagated"
            \/ /\ Stage = "PagesListed"
               /\ crawled_pages = <<>>
               /\ Stage' = "Aggregated" ]_vars
    /\ [][ (Stage \in {"Failed", "Propagated", "Aggregated"})
            => (Requests' = Requests /\ Stage' = Stage) ]_vars
    /\ [](Stage \in {"Failed", "Propagated", "Aggregated"} => ~ENABLED Next)

\* A call that waited in Polling, listed pages, fetched them and returned
\* a non-empty string: every stage of the flow was passed.
C19_Witness ==
    /\ Stage = "Aggregated"
    /\ n_post = 1
    /\ n_sleep >= 1
    /\ n_pages = 1
    /\ \E i \in DOMAIN n_retrieve : n_retrieve[i] = 1
    /\ formatted_output # EmptyStr

\* A call that ended in Failed, out of Polling.
C19_WitnessFailed ==
    /\ Stage = "Failed"
    /\ n_sleep >= 1
    /\ n_pages = 0

-----------------------------------------------------------------------------
\* The pages whose retrieval request was issued and has not come back.
InFlight == { i \in DOMAIN task : n_retrieve[i] = 1 /\ task[i] = "running" }

(* C20: during the fetch stage at most 10 retrieval requests are in flight *)
(* at any moment, whatever the number of descriptors; while 10 are in      *)
(* flight no queued descriptor can be started, and it can be as soon as a  *)
(* worker is free.                                                         *)
C20_AtMostTenInFlight ==
    /\ Cardinality(InFlight) <= 10
    /\ \A i \in DOMAIN task :
           task[i] = "queued" =>
               /\ Cardinality(InFlight) = 10 => ~ENABLED RetrieveStart(i)
               /\ ( /\ pc = "fetch"
                    /\ Cardinality(InFlight) < 10
                    /\ \A j \in 1..(i - 1) : task[j] # "queued" )
                  => ENABLED RetrieveStart(i)

\* Ten requests are in flight and the eleventh descriptor waits.
C20_Witness ==
    /\ Cardinality(InFlight) = 10
    /\ Len(task) > 10
    /\ task[Len(task)] = "queued"

-----------------------------------------------------------------------------
\* The values the .env files give the key.
FileValues(files) ==
    { FileValue(files, i) : i \in { j \in DOMAIN files : HoldsKey(files, j) } }

\* The constructor of a credential-requiring adapter runs in this step.
Constructing == adapter.pc = "new" /\ adapter.cls \in CredentialClasses

(* C13: the constructor of every credential-requiring adapter stores the   *)
(* explicit api_key argument when one is given; otherwise the value of the *)
(* provider's environment variable when it is set; otherwise a value read  *)
(* from a .env file.  It reads the environment variable only when no       *)
(* argument is given, and the .env file only when, besides, the variable   *)
(* is not set.                                                             *)
C13_ThreeTiers ==
    [][ Constructing =>
          /\ ("environ" \in adapter'.consulted)
                 <=> (adapter.api_key_arg = None)
          /\ ("env_file" \in adapter'.consulted)
                 <=> (adapter.api_key_arg = None /\ adapter.environ = None)
          /\ (adapter'.pc = "constructed") =>
                 IF adapter.api_key_arg # None
                 THEN adapter'.api_key = adapter.api_key_arg
                 ELSE IF adapter.environ # None
                 THEN adapter'.api_key = adapter.environ
                 ELSE adapter'.api_key \in FileValues(adapter.env_files)
      ]_vars

\* An instance whose key came from a .env file, the argument and the
\* environment variable being absent.
C13_Witness ==
    /\ adapter.cls \in CredentialClasses
    /\ adapter.pc = "constructed"
    /\ adapter.api_key_arg = None
    /\ adapter.consulted = {"environ", "env_file"}
    /\ adapter.api_key \in FileValues(adapter.env_files)
    /\ adapter.api_key # ""

-----------------------------------------------------------------------------
\* The directories whose .env file the loader of the class reads.
Visited(cls, files) ==
    IF cls = "YoutubeSearch" THEN {1}
    ELSE { i \in DOMAIN files : i <= EnvFileLevels }

\* Neither an argument, nor the environment variable, nor a key in a .env
\* file the loader reads.
NoCredential(ad) ==
    /\ ad.api_key_arg = None
    /\ ad.environ = None
    /\ \A i \in Visited(ad.cls, ad.env_files) : ~HoldsKey(ad.env_files, i)

\* The exception types of a missing credential.
ConfigurationErrors == {"EnvironmentError", "ValueError"}

(* C14: the constructor of a credential-requiring adapter, given no        *)
(* api_key argument, no environment variable and no key in a .env file it  *)
(* reads, raises a configuration error (EnvironmentError, or ValueError    *)
(* for YoutubeSearch); the instance does not exist, so it holds no key and *)
(* no request is issued through it, and nothing runs after the raise: the  *)
(* construction is not tried again.                                        *)
C14_NoCredentialFails ==
    /\ [][ (Constructing /\ NoCredential(adapter)) =>
              /\ adapter'.pc = "raised"
              /\ adapter'.error.type \in ConfigurationErrors
              /\ adapter'.api_key = None
              /\ adapter'.requests = 0 ]_vars
    /\ [](adapter.pc = "raised" =>
              /\ adapter.requests = 0
              /\ adapter.control = "not called"
              /\ ~ENABLED NextAdapters)

\* A construction that failed for want of a credential: the .env file of
\* the working directory exists and does not hold the key.
C14_Witness ==
    /\ adapter.pc = "raised"
    /\ adapter.cls \in CredentialClasses
    /\ NoCredential(adapter)
    /\ adapter.env_files[1] = "nokey"
    /\ adapter.error.type \in ConfigurationErrors
    /\ adapter.consulted = {"environ", "env_file"}

-----------------------------------------------------------------------------
\* The constructor runs with no argument and no environment variable, and
\* every package it imports is installed.
ConstructingFromFile ==
    /\ Constructing
    /\ adapter.api_key_arg = None
    /\ adapter.environ = None
    /\ adapter.missing = {}

\* The directories among S whose .env file gives the key a value.
Holders(files, S) == { i \in S : HoldsKey(files, i) }

\* The working directory and its first k parents.
UpTo(files, k) == { i \in DOMAIN files : i <= k + 1 }

(* C15, as stated: with no argument and no environment variable, every     *)
(* credential-requiring adapter finds a .env file holding the key in the   *)
(* working directory or in any of up to 4 parent directories, and uses its *)
(* value.  (Violated: the fourth parent is never read, YoutubeSearch reads *)
(* the working directory only, and a nearer file with an empty value       *)
(* hides a farther one.)                                                   *)
C15_FourParents ==
    [][ ( /\ ConstructingFromFile
          /\ \E i \in UpTo(adapter.env_files, 4) :
                 adapter.env_files[i] = "key" )
        => /\ adapter'.pc = "constructed"
           /\ \E i \in UpTo(adapter.env_files, 4) :
                  /\ adapter.env_files[i] = "key"
                  /\ adapter'.api_key = FileValue(adapter.env_files, i)
      ]_vars

(* C15, amended: with no argument and no environment variable, the         *)
(* python-dotenv adapters read the .env files of the working directory and *)
(* of up to 3 parent directories, nearest first, and the nearest file that *)
(* gives the key a value decides: its value is used, or, when it is empty, *)
(* construction fails as for a missing credential; a file farther up is    *)
(* not read.  YoutubeSearch reads the .env file of the working directory   *)
(* only and stores the value it gives the key, empty or not.  With no such *)
(* file construction fails.                                                *)
C15_ThreeParents ==
    [][ ConstructingFromFile =>
          LET files == adapter.env_files
              holders == Holders(files,
                                 IF adapter.cls = "YoutubeSearch"
                                 THEN UpTo(files, 0) ELSE UpTo(files, 3))
              nearest == CHOOSE i \in holders : \A j \in holders : i <= j
          IN  IF holders = {}
              THEN /\ adapter'.pc = "raised"
                   /\ adapter'.error.type \in ConfigurationErrors
              ELSE IF adapter.cls # "YoutubeSearch"
                      /\ FileValue(files, nearest) = ""
              THEN /\ adapter'.pc = "raised"
                   /\ adapter'.error =
                          [type |-> "EnvironmentError",
                           message |-> NotInEnvFile]
              ELSE /\ adapter'.pc = "constructed"
                   /\ adapter'.api_key = FileValue(files, nearest)
      ]_vars

\* The key was taken from the .env file of the third parent directory,
\* past a file in the working directory that does not hold it; the file of
\* the fourth parent holds the key too.
C15_Witness ==
    /\ adapter.pc = "constructed"
    /\ adapter.api_key_arg = None
    /\ adapter.consulted = {"environ", "env_file"}
    /\ Len(adapter.env_files) = 5
    /\ adapter.env_files[1] = "nokey"
    /\ adapter.env_files[4] = "key"
    /\ adapter.env_files[5] = "key"
    /\ adapter.api_key = FileValue(adapter.env_files, 4)

-----------------------------------------------------------------------------
\* The packages the class declares or imports as its dependencies.
Required(cls) == Dependencies(cls) \cup ImportedLast(cls)

\* A declared dependency of the adapter is not installed.
DependencyAbsent == Required(adapter.cls) \cap adapter.missing # {}

\* The prerequisite check of a constructed instance runs in this step.
Controlling ==
    /\ adapter.pc = "constructed"
    /\ adapter.control = "not called"
    /\ adapter'.control # "not called"

\* The argument or the environment variable gives the key.
KeyGiven == adapter.api_key_arg # None \/ adapter.environ # None

C16_WitnessNoDotenv ==
    /\ adapter.pc = "raised"
    /\ "python-dotenv" \in adapter.missing
    /\ adapter.error = [type |-> "EnvironmentError", message |-> NoDotenv]

-----------------------------------------------------------------------------
\* The invocation has returned or raised.
Finished == invocation.pc \in {"returned", "raised"}

C17_WitnessTickers ==
    /\ invocation.op = "search_tickers"
    /\ invocation.pc = "returned"
    /\ invocation.found > invocation.limit
    /\ invocation.n_calls = 2

\* search returned after its one call.
C17_WitnessSearch ==
    /\ invocation.op = "search"
    /\ invocation.pc = "returned"
    /\ invocation.n_calls = 1

-----------------------------------------------------------------------------
\* The fetch of page i is over: retrieve_page_content has returned.
Fetched(i) == task[i] \in {"done", "yielded"}

\* What page i contributes, from its own descriptor and its own response
\* alone: its entry, or nothing.
OwnOutcome(i) ==
    IF /\ Complete(i)
       /\ Answered(i)
       /\ ~FetchRejected(i)
       /\ ~EmptyContent(i)
    THEN <<EntryOf(i)>> ELSE <<>>

(* C21: the outcome of a page's fetch is a function of that page's own     *)
(* descriptor and its own retrieval response; once a fetch is over its     *)
(* outcome is changed by no later step, whatever happens to the other      *)
(* pages; and the pages of the returned result set are those whose own     *)
(* outcome is an entry, with that entry.                                   *)
C21_FailureIsolated ==
    /\ [](\A i \in DOMAIN task : Fetched(i) => future[i] = OwnOutcome(i))
    /\ [][ \A i \in DOMAIN task :
              (pc = "fetch" /\ Fetched(i)) =>
                  /\ future'[i] = future[i]
                  /\ response'[i] = response[i] ]_vars
    /\ [](Returned =>
              /\ \A i \in Pages :
                     OwnOutcome(i) # <<>> =>
                         \E k \in DOMAIN results :
                             results[k] = OwnOutcome(i)[1]
              /\ \A k \in DOMAIN results :
                     \E i \in Pages : OwnOutcome(i) = <<results[k]>>
              /\ Len(results) =
                     Cardinality({ i \in Pages : OwnOutcome(i) # <<>> }))

\* One page's retrieval raised and another page is in the returned
\* result set.
C21_Witness ==
    /\ Returned
    /\ \E i, j \in Pages :
           /\ Answered(i) /\ response[i][1].raised
           /\ OwnOutcome(j) # <<>>
           /\ \E k \in DOMAIN results : results[k] = OwnOutcome(j)[1]

-----------------------------------------------------------------------------
(* C22: no sleep precedes the first status query; a status query that is   *)
(* about to be issued has been preceded by as many sleeps as queries; once *)
(* a query is answered and the call waits, or has left the loop on a       *)
(* terminal status or on an HTTP status that is no success, the sleeps are *)
(* one fewer than the queries; every sleep blocks for 5 time units; and a  *)
(* sleep step is always followed by a status query, never by another       *)
(* sleep.                                                                  *)
C22_OneSleepBetweenQueries ==
    /\ slept = SleepInterval * n_sleep
    /\ n_status = 0 => n_sleep = 0
    /\ pc = "poll" => n_sleep = n_status
    /\ (pc # "poll" /\ n_status > 0) => n_sleep = n_status - 1
    /\ ( /\ last_response.stage = "status"
         /\ \/ ~HttpSuccess(last_response.status_code)
            \/ ~NonTerminal(last_response.status) )
       => pc # "sleep" /\ ~ENABLED Sleep

\* Three status queries were issued, two sleeps of 5 between them, and
\* the third returned a terminal status.
C22_Witness ==
    /\ n_status = 3
    /\ n_sleep = 2
    /\ slept = 10
    /\ last_response.stage = "status"
    /\ last_response.status_code = 200
    /\ ~NonTerminal(last_response.status)

-----------------------------------------------------------------------------
\* An operation other than crawl_website is being invoked.
Invoked == invocation.op # "none"

\* This step issues an outbound call of the invoked operation.
IssuesCall == Invoked /\ invocation'.n_calls > invocation.n_calls

\* This step issues a status query after an earlier one.
QueriesAgain == n_status > 0 /\ n_status' > n_status

(* C23: no operation issues the same request twice in one invocation.  In  *)
(* crawl_website the job-creation request is issued at most once, and      *)
(* exactly once when the call has got past it; the retrieval request of a  *)
(* page is issued at most once, whether it fails or not; a status query    *)
(* is issued again only when the last one was answered with an             *)
(* HTTP-success status and a status that is neither completed nor failed.  *)
(* In the other operations every call that is issued is the operation's    *)
(* first, or the download of read_paper after its lookup succeeded, or     *)
(* the fetch of the next symbol of search_tickers; an operation that has   *)
(* returned or raised issues nothing more.                                 *)
C23_NoRetry ==
    /\ [](/\ n_post <= 1
          /\ pc \notin {"idle", "initiate"} => n_post = 1
          /\ \A i \in DOMAIN n_retrieve : n_retrieve[i] <= 1
          /\ Invoked /\ invocation.op \notin {"read_paper", "search_tickers"}
                => invocation.n_calls <= 1)
    /\ [][QueriesAgain =>
             /\ last_response.stage = "status"
             /\ HttpSuccess(last_response.status_code)
             /\ NonTerminal(last_response.status)]_vars
    /\ [][IssuesCall =>
             /\ invocation'.n_calls = invocation.n_calls + 1
             /\ ~Finished
             /\ \/ invocation.n_calls = 0
                \/ /\ invocation.op = "read_paper"
                   /\ invocation.pc = "found"
                   /\ invocation.n_calls = 1
                   /\ invocation'.pc = "returned"
                \/ /\ invocation.op = "search_tickers"
                   /\ invocation'.fetched = invocation.fetched + 1
                   /\ invocation.n_calls = invocation.fetched]_vars

\* crawl_website returned although the retrieval of a page failed, after
\* one job-creation request, three status queries and one retrieval
\* request per page.
C23_Witness ==
    /\ pc = "done"
    /\ n_post = 1
    /\ n_status = 3
    /\ \E i \in Pages : /\ n_retrieve[i] = 1
                        /\ Answered(i)
                        /\ future[i] = <<>>

\* A search whose request failed has returned after that one request.
C23_WitnessSearch ==
    /\ Invoked
    /\ invocation.op \in {"search", "youtube_search"}
    /\ invocation.pc = "returned"
    /\ invocation.outcome = "error"
    /\ invocation.n_calls = 1

-----------------------------------------------------------------------------
\* The pages whose future holds a result.
WithResult == { i \in DOMAIN future : future[i] # <<>> }

(* C25: a descriptor whose url or retrieve_id is empty or missing triggers *)
(* no retrieval request: its request count stays 0, no response is ever    *)
(* recorded for it, its fetch is never in flight and its future holds      *)
(* None; a request is issued only for descriptors with both fields         *)
(* non-empty; and the returned result set has one entry per page whose     *)
(* future holds a result, each of a descriptor with both fields.           *)
C25_IncompleteNotRequested ==
    /\ \A i \in DOMAIN task :
          /\ n_retrieve[i] > 0 => Complete(i)
          /\ ~Complete(i) =>
                /\ n_retrieve[i] = 0
                /\ response[i] = <<>>
                /\ task[i] # "running"
                /\ future[i] = <<>>
    /\ Returned =>
          /\ Len(results) = Cardinality(WithResult)
          /\ \A k \in 1..Len(results) :
                \E i \in WithResult : /\ Complete(i)
                                      /\ future[i] = <<results[k]>>

\* crawl_website returned the entry of one page; the other descriptor has
\* a url but no retrieve_id, and no request was issued for it.
C25_Witness ==
    /\ pc = "done"
    /\ Len(crawled_pages) = 2
    /\ Len(results) = 1
    /\ \E i \in Pages : /\ crawled_pages[i].url # EmptyStr
                        /\ crawled_pages[i].retrieve_id = None
                        /\ n_retrieve[i] = 0
                        /\ task[i] = "yielded"

-----------------------------------------------------------------------------
\* This step is taken by a worker thread: a fetch starts or finishes.
WorkerStep ==
    \E i \in DOMAIN task :
        /\ task'[i] # task[i]
        /\ task'[i] \in {"running", "done"}

\* This step is the calling thread's: as_completed yields a future, or
\* the results are sorted and formatted.
CoordinatorStep ==
    \/ \E i \in DOMAIN task : task[i] = "done" /\ task'[i] = "yielded"
    \/ pc = "fetch" /\ pc' = "done"

(* C26: sorting and formatting start only when every submitted fetch has   *)
(* finished and its future has been yielded to the calling thread, so the  *)
(* returned result set holds the result of every page whose fetch          *)
(* produced one; the results list is changed by steps of the calling       *)
(* thread only, never by a step of a worker.                               *)
C26_AggregatesAfterAllFetches ==
    /\ [][(pc = "fetch" /\ pc' = "done") =>
             \A i \in DOMAIN task : Fetched(i) /\ task[i] = "yielded"]_vars
    /\ [](Returned =>
             /\ \A i \in Pages : task[i] = "yielded"
             /\ \A i \in Pages :
                   (Complete(i) /\ Answered(i) /\ ~FetchRejected(i)
                        /\ ~EmptyContent(i)) =>
                   \E k \in 1..Len(results) : results[k] = EntryOf(i)
             /\ Len(results) = Cardinality(WithResult))
    /\ [][WorkerStep => results' = results]_vars
    /\ [][results' # results => CoordinatorStep /\ ~WorkerStep]_vars

\* The result of the second page has been appended by the calling thread
\* while the fetch of the first page is still in flight: sorting cannot
\* start.
C26_Witness ==
    /\ pc = "fetch"
    /\ Len(crawled_pages) = 2
    /\ task[1] = "running"
    /\ task[2] = "yielded"
    /\ results = future[2]
    /\ Len(results) = 1
    /\ ~ENABLED SortAndFormat

-----------------------------------------------------------------------------
\* crawl_website has returned its string or raised.
Terminated == pc \in {"done", "raised"}

(* C24: when every HTTP call returns and the service eventually answers a  *)
(* status query with completed, failed or a non-success status,            *)
(* crawl_website terminates: it returns its string or raises, and then     *)
(* takes no further step; and the fetch stage, once entered, always        *)
(* finishes with the string returned.                                      *)
C24_Terminates ==
    /\ <>Terminated
    /\ [](Terminated => ~ENABLED <<Next>>_vars)
    /\ (pc = "fetch") ~> (pc = "done")

\* crawl_website returned after the service had answered as many status
\* queries with a status that keeps the loop going as it ever does, and
\* after the fetch of two pages.
C24_Witness ==
    /\ pc = "done"
    /\ n_nonterminal = MaxPolls
    /\ n_sleep = MaxPolls
    /\ Len(crawled_pages) = 2
    /\ \A i \in Pages : Answered(i)

-----------------------------------------------------------------------------
\* The prerequisite check of the instance raised a missing-credential
\* error.
MissingCredential ==
    /\ adapter.control = "raised"
    /\ adapter.control_error.type = "EnvironmentError"

(* C27, as stated: for an adapter that takes a credential, when __init__   *)
(* has completed without error and left a non-empty key on the instance,   *)
(* by any credential tier, and every package                               *)
(* the class uses is installed, __control__() on the instance              *)
(* does not raise a missing-credential error.  (Violated: __control__      *)
(* looks at os.environ and the .env files only, never at self.api_key, so  *)
(* an instance built from an explicit api_key fails the check when the     *)
(* variable is unset and no .env file holds it.)                           *)
C27_ConstructedPassesControl ==
    (/\ adapter.cls \in CredentialClasses
     /\ adapter.pc = "constructed"
     /\ adapter.api_key \notin {None, ""}
     /\ adapter.missing = {}
     /\ adapter.control # "not called")
        => ~MissingCredential

-----------------------------------------------------------------------------
\* The outbound request of the invocation failed: it raised, came back
\* with a non-success status, or with a body that cannot be decoded.
RequestFailed ==
    invocation.response \in
        {"raised", "500", "403", "200 undecodable", "undecodable"}

(* C28: OlostepWebSearchTool.search and YoutubeSearch.search never raise:  *)
(* when the outbound request fails (exception, non-success status,         *)
(* undecodable body) they return an error value; YoutubeSearch.search      *)
(* always returns a non-empty list: the videos, at most limit of them, or  *)
(* a single message entry, or a single error entry.                        *)
C28_FailuresReturned ==
    invocation.op \in {"search", "youtube_search"} =>
        /\ invocation.pc # "raised"
        /\ invocation.error = "none"
        /\ (invocation.pc = "returned" /\ RequestFailed) =>
               invocation.outcome = "error"
        /\ (invocation.pc = "returned" /\ invocation.op = "youtube_search") =>
               /\ invocation.n_result >= 1
               /\ invocation.outcome \in {"videos", "message", "error"}
               /\ invocation.outcome \in {"message", "error"} =>
                      invocation.n_result = 1
               /\ invocation.outcome = "videos" =>
                      /\ invocation.n_result <=
                             Min(invocation.found, invocation.limit)
                      /\ invocation.response = "videos" =>
                             invocation.n_result =
                                 Min(invocation.found, invocation.limit)

\* YoutubeSearch.search returned a single error entry after its request
\* raised.
C28_Witness ==
    /\ invocation.op = "youtube_search"
    /\ invocation.pc = "returned"
    /\ invocation.response = "raised"
    /\ invocation.outcome = "error"
    /\ invocation.n_result = 1

\* OlostepWebSearchTool.search returned an error value for a body that is
\* no JSON.
C28_WitnessSearch ==
    /\ invocation.op = "search"
    /\ invocation.pc = "returned"
    /\ invocation.response = "200 undecodable"
    /\ invocation.outcome = "error"

-----------------------------------------------------------------------------
\* The sections of the response that belong to the instance's search
\* type, whatever its letter case.
SectionsOfType ==
    invocation.sections \cap
        (CASE Lower(invocation.search_type) = "search" -> SearchSections
           [] Lower(invocation.search_type) = "news" -> NewsSections
           [] OTHER -> {})

(* C29, as stated: a SerperDev instance whose search_type is "search" or   *)
(* "news" in any letter case (and whose n_results is positive) returns     *)
(* from search() the processed sections                                    *)
(* of that type that the response contains; any other search_type raises   *)
(* ValueError before a request is issued.  (Violated: _get_search_url      *)
(* lowers the search type but _process_search_results compares it as       *)
(* written, so with search_type "News" the request goes to /news and the   *)
(* news section of the response is dropped.)                               *)
C29_SectionsOfTypeReturned ==
    invocation.op = "serper_search" =>
        /\ ~AllowedSearchType(invocation.search_type) =>
               /\ invocation.n_calls = 0
               /\ invocation.pc # "returned"
               /\ invocation.pc = "raised" => invocation.error = "ValueError"
        /\ (AllowedSearchType(invocation.search_type)
                /\ invocation.n_results > 0
                /\ invocation.pc = "returned") =>
               DOMAIN invocation.result = SectionsOfType

-----------------------------------------------------------------------------
\* The positions of the items in a processor's result.
ResultIds == { invocation.result[k].id : k \in 1..Len(invocation.result) }

\* The items among the first n that carry every required key.
ValidAmongFirst(n) ==
    { k \in 1..Min(n, Len(invocation.items)) :
        RequiredKeys(invocation.section) \subseteq invocation.items[k].keys }

=============================================================================
